---- MODULE Spec2Model ----
(***************************************************************************)
(* Model of the asynchronous upload pipeline of the call transcription     *)
(* service: UploadService.process_upload_async (backend/services/          *)
(* upload_service.py) together with the DatabaseService operations it      *)
(* calls.  One submission is followed from the call of                     *)
(* process_upload_async to the end of the request thread, of the           *)
(* background thread transcription_progress and of the two worker threads  *)
(* do_transcribe and do_analyze.                                           *)
(*                                                                         *)
(* Further specifications over the same variables add the route            *)
(* upload_call with the synchronous handler upload_and_process             *)
(* (RouteSpec), emits that raise (EmitSpec) and a second submission        *)
(* running at the same time (SharedSpec), upload_and_process called with   *)
(* any request (SyncSpec), the services STTService.transcribe and          *)
(* LLMService.analyze_transcript on their own (ServiceSpec) and the        *)
(* controller operations get_one, delete_one and get_all on a store that   *)
(* has records (ApiSpec), update_tags called while a submission is handled *)
(* (TagsSpec), a cleanup whose steps fail (CleanupSpec) and AuthService    *)
(* with its users and tokens (AuthSpec).                                   *)
(*                                                                         *)
(* Time is counted in half seconds (the guard loops sleep 0.5 s): the      *)
(* variable elapsed holds 2 * (time.time() - start_time).                  *)
(*                                                                         *)
(* Python values are records [ty, v]: ty is the Python type, v the content *)
(* (a sequence of characters or words for str, a sequence of values for     *)
(* list, a function from keys for dict).                                   *)
(***************************************************************************)
EXTENDS Integers, Sequences, FiniteSets, TLC

\* ------------------------------------------------------------------ bounds

\* The longest time.sleep(0.5) may take, in half seconds (a sleep returns
\* after at least the time asked, possibly later).
MaxSleep == 2

\* The number of requests the controller is followed through, one after
\* the other.
MaxRequests == 2

\* The number of tag overrides a user sends while a submission is handled.
MaxOverrides == 1

\* The number of tokens authenticate is followed through, and of users.
MaxTokens == 2
MaxUsers == 2

\* The clock is followed for 36 hours, in steps of 12.
MaxHours == 36
HoursPerStep == 12

\* ------------------------------------------------------- program constants

timeout_seconds == 300
estimated_duration == 60
timeout_llm == 60
max_transcript_length == 1000

max_size == 100 * 1024 * 1024

\* auth_service.py line 19, the default of TOKEN_EXPIRY_HOURS.
token_expiry_hours == 24

\* Line 129.
TranscriptionTimeout == "Transcription timed out after 5 minutes"

\* Line 200.
AnalysisTimeout == "LLM analysis timed out after 1 minute"

\* ------------------------------------------------------------ Python values

PyNone == [ty |-> "None", v |-> <<>>]

PyStr(s) == [ty |-> "str", v |-> s]

PyList(s) == [ty |-> "list", v |-> s]

PyDict(f) == [ty |-> "dict", v |-> f]

PyBool(b) == [ty |-> "bool", v |-> b]

PyInt(n) == [ty |-> "int", v |-> n]

\* Python truthiness: None, "", [] and {} are false.
Truthy(x) ==
  CASE x.ty = "None" -> FALSE
    [] x.ty = "dict" -> DOMAIN x.v # {}
    [] OTHER -> x.v # <<>>

\* dict.get(key, default)
Get(d, key, default) == IF key \in DOMAIN d.v THEN d.v[key] ELSE default

\* [x]: the list holding the one value x.
ListOf(x) == PyList(<<x>>)

\* jsonify({"success": False, "error": message}), the message in pieces.
Failure(message) ==
  PyDict([success |-> PyBool(FALSE), error |-> PyStr(message)])

\* Whether a message has the piece.
Contains(message, piece) == \E i \in DOMAIN message : message[i] = piece

RECURSIVE Digits(_)
\* str(n) for n >= 0, as a sequence of characters.
Digits(n) ==
  LET digit == <<"0", "1", "2", "3", "4", "5", "6", "7", "8", "9">>[(n % 10) + 1]
  IN IF n < 10 THEN <<digit>> ELSE Digits(n \div 10) \o <<digit>>

\* ---------------------------------------------------------------- filenames
\* A filename is a sequence of characters.

allowed_extensions ==
  { <<".", "w", "a", "v">>, <<".", "m", "p", "3">>, <<".", "m", "4", "a">>,
    <<".", "o", "g", "g">>, <<".", "f", "l", "a", "c">>, <<".", "w", "e", "b", "m">> }

\* str.lower(), on the capitals the model's filenames use.
LowerChar(c) ==
  CASE c = "A" -> "a"
    [] c = "W" -> "w"
    [] c = "V" -> "v"
    [] OTHER -> c

Lower(s) == [i \in DOMAIN s |-> LowerChar(s[i])]

\* str.endswith(ext)
EndsWith(s, ext) ==
  /\ Len(s) >= Len(ext)
  /\ SubSeq(s, Len(s) - Len(ext) + 1, Len(s)) = ext

\* Characters outside ASCII, which secure_filename drops when it encodes.
NonAscii == {"U+65E5"}

\* Characters of the class [A-Za-z0-9_.-] that secure_filename keeps.
SafeChars == {"a", "A", "w", "W", "v", "V", "p", "d", "f", "m", "3", "4",
              "o", "g", "l", "c", "e", "b", ".", "_", "-"}

RECURSIVE JoinWords(_)
\* "_".join(s.split()): runs of blanks between words become one "_", blanks
\* at either end disappear.
JoinWords(s) ==
  IF s = <<>> THEN <<>>
  ELSE IF Head(s) = " " THEN JoinWords(Tail(s))
  ELSE LET rest == Tail(s)
           more == \E i \in DOMAIN rest : rest[i] # " "
           sep  == /\ rest # <<>>
                   /\ Head(rest) = " "
                   /\ more
       IN <<Head(s)>> \o (IF sep THEN <<"_">> ELSE <<>>) \o JoinWords(rest)

RECURSIVE StripLeft(_)
StripLeft(s) ==
  IF s # <<>> /\ Head(s) \in {".", "_"} THEN StripLeft(Tail(s)) ELSE s

RECURSIVE StripRight(_)
StripRight(s) ==
  IF s # <<>> /\ s[Len(s)] \in {".", "_"}
  THEN StripRight(SubSeq(s, 1, Len(s) - 1))
  ELSE s

\* werkzeug.utils.secure_filename
secure_filename(name) ==
  LET ascii  == SelectSeq(name, LAMBDA c : c \notin NonAscii)
      spaced == [i \in DOMAIN ascii |-> IF ascii[i] = "/" THEN " " ELSE ascii[i]]
      joined == JoinWords(spaced)
      kept   == SelectSeq(joined, LAMBDA c : c \in SafeChars)
  IN StripRight(StripLeft(kept))

\* os.path.splitext(name)[1]: from the last dot, unless only dots precede it.
splitext(name) ==
  LET dots == {i \in DOMAIN name : name[i] = "."}
      last == CHOOSE i \in dots : \A j \in dots : j <= i
      lead == \A j \in 1..(last - 1) : name[j] = "."
  IN IF dots = {} THEN <<>>
     ELSE IF lead THEN <<>>
     ELSE SubSeq(name, last, Len(name))

\* ------------------------------------------------------------------ inputs

\* The filenames a submission may declare.
Filenames ==
  { <<>>,
    <<"a", ".", "w", "a", "v">>,
    <<"A", ".", "W", "A", "V">>,
    <<"a", ".", "p", "d", "f">>,
    <<"w", "a", "v">>,
    <<".", ".", "/", "U+65E5", " ", "a", ".", "m", "p", "3">>,
    <<"U+65E5", ".", "o", "g", "g">> }

\* The sizes file.tell() may report.
FileSizes == {0, 50, max_size, max_size + 1}

LongText == [i \in 1..(max_transcript_length + 1) |-> "h"]

\* What the transcription engine may return.
Texts == { <<>>, <<" ", " ">>, <<"hello world">>, LongText }

Word(w) == PyStr(<<w>>)

\* What the analysis engine may return: None, a value that is no mapping, an
\* empty mapping, the mapping of the spec's scenario, a mapping with fields
\* missing, and a mapping whose tags, roles, emotions and insights have the
\* wrong type.
AnalysisResults ==
  << PyNone,
    PyStr(<<"not", "json">>),
    PyDict(<<>>),
    PyDict([summary |-> Word("short call"), tags |-> PyList(<<Word("inquiry")>>),
            roles |-> PyDict(<<>>), emotions |-> PyList(<<>>),
            intent |-> Word("information"), mood |-> Word("neutral"),
            insights |-> PyList(<<>>)]),
    PyDict([summary |-> Word("Test summary"),
            tags |-> PyList(<<Word("test-tag"), Word("client wants to buy")>>)]),
    PyDict([summary |-> Word("angry caller"), tags |-> Word("complaint"),
            roles |-> PyList(<<Word("agent")>>), emotions |-> Word("angry"),
            intent |-> Word("complaint"), mood |-> Word("negative"),
            insights |-> PyStr(<<>>)]) >>

\* ------------------------------------------------------------------- state

VARIABLES
  filename,             \* file.filename of the submission
  file_size,            \* what file.tell() reports at the end of the file
  has_file,             \* whether the request has a 'file' part
  session_id,           \* the session id of the request, "" when it has none
  response,             \* the status the route answered with, 0 before it has
  other,                \* another submission that uses the same stores
  last_object_id,       \* the last ObjectId the calls collection generated
  last_uuid,            \* the last value uuid.uuid4() returned
  body,                 \* the JSON body of the answer, NoBody before it
  called,               \* the calls a controller made to its services, in order
  request,              \* the request a controller operation is handling
  query,                \* the limit and skip get_all_calls was called with
  stt,                  \* the frame of STTService.transcribe
  llm,                  \* the frame of LLMService.analyze_transcript
  auth,                 \* the users and tokens collections of AuthService
  pcMain,               \* position of the request thread in process_upload_async
  pcBg,                 \* position of the thread running transcription_progress
  call_id,              \* local of process_upload_async; 0 is None
  file_path,            \* local of process_upload_async; NoPath is None
  original_filename,    \* local of process_upload_async
  e,                    \* the exception caught at line 296, "" when none
  files,                \* the files that exist in the upload folder
  calls,                \* the calls collection: id -> document
  transcribe_thread,    \* "unstarted", "alive" or "finished"
  transcript,           \* nonlocal written by do_transcribe
  transcription_error,  \* nonlocal written by do_transcribe, "" is None
  e_stt,                \* the exception caught at line 161, "" when none
  elapsed,              \* the running guard's elapsed time, in half seconds
  last_update,          \* last_progress_update / last_llm_update
  transcript_for_analysis,
  analyze_thread,       \* "unstarted", "alive" or "finished"
  analysis,             \* nonlocal written by do_analyze
  analysis_error,       \* nonlocal written by do_analyze, "" is None
  llm_error,            \* the exception caught at line 247, "" when none
  summary, tags, roles, emotions, intent, mood, insights,
  call_record,          \* what get_call_by_id returned at line 275
  lastEvent,            \* the last upload_progress event published
  evParity,             \* parity of the number of upload_progress events
  nTerminal,            \* number of 'complete' and 'error' events published
  delivered,            \* the emits of the last message published, in order
  upload_complete       \* the upload_complete messages sent, in order

fileVars == <<filename, file_size, has_file, session_id>>

\* What the controller operations answer with and are given.
ctrlVars == <<body, called, request, query>>

\* The frames of the two services' functions.
svcVars == <<stt, llm, auth>>

\* What process_upload_async and its threads never write.
outerVars == <<response, other, ctrlVars, svcVars>>

idVars == <<last_object_id, last_uuid>>

mainLocals == <<call_id, file_path, original_filename, e>>

storeVars == <<files, calls>>

sttVars == <<transcribe_thread, transcript, transcription_error>>

llmVars == <<analyze_thread, analysis, analysis_error>>

guardVars == <<elapsed, last_update>>

resultVars == <<summary, tags, roles, emotions, intent, mood, insights>>

bgLocals == <<e_stt, transcript_for_analysis, llm_error, call_record>>

eventVars == <<lastEvent, evParity, nTerminal, delivered>>

vars == <<fileVars, outerVars, idVars, pcMain, pcBg, mainLocals, storeVars,
          sttVars, llmVars, guardVars, resultVars, bgLocals, eventVars,
          upload_complete>>

NoPath == [uuid |-> 0, ext |-> <<>>]

\* A local that has not been assigned yet.
Unbound == [ty |-> "unbound", v |-> <<>>]

NoEvent == [stage |-> "none", progress |-> 0, message |-> ""]

TerminalStages == {"complete", "error"}

\* The session ids a request may carry.
SessionIds == {"s1"}

\* The other submission before it has done anything.
NoOther == [pc |-> "idle", call_id |-> 0, file_path |-> NoPath]

\* No answer yet.
NoBody == [ty |-> "None", v |-> <<>>]

\* No controller operation is being handled.
NoRequest ==
  [op |-> "", n |-> 0, call_id |-> <<>>, tag |-> [ty |-> "None", v |-> <<>>],
   limit |-> [ty |-> "None", v |-> <<>>], skip |-> [ty |-> "None", v |-> <<>>]]

\* get_all_calls has not been called.
NoQuery == [limit |-> -1, skip |-> -1]

\* STTService.transcribe is not running.
NoStt == [pc |-> "idle", processed_audio |-> "", temp_file |-> FALSE,
          engine |-> "", raised |-> "", text |-> <<>>]

\* LLMService.analyze_transcript is not running.
NoLlm == [pc |-> "idle", transcript |-> <<>>, prompt |-> <<>>, api |-> "",
          content |-> <<>>, raised |-> "",
          result |-> [ty |-> "None", v |-> <<>>]]

\* No call of AuthService yet.
NoCall == [op |-> "", name |-> "", token |-> 0, user_id |-> 0, ok |-> FALSE]

\* AuthService before its first call: no user, no token, at hour 0.  issued,
\* revoked and barred record what has happened: the tokens authenticate
\* returned, with their user and hour, the tokens for which logout
\* returned True and the users that were made inactive.
NoAuth ==
  [users |-> <<>>, tokens |-> {}, now |-> 0, last |-> NoCall, turn |-> 0,
   issued |-> <<>>, revoked |-> {}, barred |-> {}]

\* Nothing of a request has run yet.
Fresh ==
  /\ response = 0
  /\ other = NoOther
  /\ body = NoBody
  /\ called = <<>>
  /\ request = NoRequest
  /\ query = NoQuery
  /\ stt = NoStt
  /\ llm = NoLlm
  /\ auth = NoAuth
  /\ last_object_id = 0
  /\ last_uuid = 0
  /\ pcBg = "unstarted"
  /\ call_id = 0
  /\ file_path = NoPath
  /\ original_filename = <<>>
  /\ e = ""
  /\ files = {}
  /\ calls = <<>>
  /\ transcribe_thread = "unstarted"
  /\ transcript = Unbound
  /\ transcription_error = ""
  /\ e_stt = ""
  /\ elapsed = 0
  /\ last_update = 0
  /\ transcript_for_analysis = Unbound
  /\ analyze_thread = "unstarted"
  /\ analysis = Unbound
  /\ analysis_error = ""
  /\ llm_error = ""
  /\ summary = Unbound
  /\ tags = Unbound
  /\ roles = Unbound
  /\ emotions = Unbound
  /\ intent = Unbound
  /\ mood = Unbound
  /\ insights = Unbound
  /\ call_record = Unbound
  /\ lastEvent = NoEvent
  /\ evParity = 0
  /\ nTerminal = 0
  /\ delivered = <<>>
  /\ upload_complete = <<>>

\* process_upload_async(file, session_id) is called.
Init ==
  /\ filename \in Filenames
  /\ file_size \in FileSizes
  /\ has_file = TRUE
  /\ session_id \in SessionIds
  /\ pcMain = "start"
  /\ Fresh

\* ------------------------------------------------------ progress broadcaster

\* socketio.emit(event, data, room=...): `to` is <<room>>, or <<>> for the
\* emit with no room, which reaches every client.
Emit(event, data, to) == [event |-> event, data |-> data, to |-> to]

\* Mutant of EmitTwice: the message is emitted to the room only.
EmitTwice_RoomOnly(event, data) == << Emit(event, data, <<session_id>>) >>

\* The two emits of a message: to the room of the session, then to everyone.
EmitTwice(event, data) ==
  << Emit(event, data, <<session_id>>), Emit(event, data, <<>>) >>

\* _send_progress: one upload_progress event, to the room and to everyone.
send_progress(stage, progress, message) ==
  /\ lastEvent' = [stage |-> stage, progress |-> progress, message |-> message]
  /\ evParity' = 1 - evParity
  /\ nTerminal' = IF stage \in TerminalStages THEN nTerminal + 1 ELSE nTerminal
  /\ delivered' = EmitTwice("upload_progress",
                             [session_id |-> session_id, stage |-> stage,
                              progress |-> progress, message |-> message])

\* socketio.emit('upload_complete', data), to the room and to everyone.
send_complete(data) ==
  /\ upload_complete' = Append(upload_complete, data)
  /\ delivered' = EmitTwice("upload_complete", data)

\* ------------------------------------------------------------ document store

\* The document create_call_record inserts for (filename, audio_file_path).
NewCallDoc(name, path) ==
  [filename |-> name, audio_file_path |-> path,
   transcript |-> PyStr(<<>>), summary |-> PyStr(<<>>),
   tags |-> PyList(<<>>), tags_original |-> PyList(<<>>),
   tags_override |-> PyNone, roles |-> PyDict(<<>>),
   emotions |-> PyList(<<>>), intent |-> Word("unknown"),
   mood |-> Word("neutral"), insights |-> PyList(<<>>)]

\* The collection after update_call_record(id, transcript, ..., insights) with
\* no tags_override, when update_one succeeds.
UpdatedCalls(db, id, t, s, tg, r, em, it, m, ins) ==
  LET set(old, new) == IF new.ty = "None" THEN old ELSE new
  IN IF id \notin DOMAIN db THEN db
     ELSE [db EXCEPT ![id] =
            [@ EXCEPT !.transcript = set(@, t), !.summary = set(@, s),
                      !.tags_original = set(@, tg), !.tags = set(@, tg),
                      !.roles = set(@, r), !.emotions = set(@, em),
                      !.intent = set(@, it), !.mood = set(@, m),
                      !.insights = set(@, ins)]]

\* get_call_by_id: the document, or None when there is none.
GetCallById(db, id) == IF id \in DOMAIN db THEN PyDict(db[id]) ELSE PyNone

\* delete_one({"_id": id})
DeletedCalls(db, id) == [i \in DOMAIN db \ {id} |-> db[i]]

\* ------------------------------ process_upload_async, on the request thread

\* Mutant of ValidationError: a file of no bytes passes.
ValidationError_AcceptsEmpty(name, size) ==
  IF name = <<>> THEN "No file selected"
  ELSE IF ~ \E ext \in allowed_extensions : EndsWith(Lower(name), ext)
       THEN "Invalid file type"
  ELSE IF size > max_size THEN "File too large (max 100MB)"
  ELSE ""

\* Lines 52-71: the message of the validation that rejects the file, "" when
\* none does.
ValidationError(name, size) ==
  IF name = <<>> THEN "No file selected"
  ELSE IF ~ \E ext \in allowed_extensions : EndsWith(Lower(name), ext)
       THEN "Invalid file type"
  ELSE IF size > max_size THEN "File too large (max 100MB)"
  ELSE IF size = 0 THEN "File is empty"
  ELSE ""

\* Line 50.
Validating ==
  /\ pcMain = "start"
  /\ send_progress("uploading", 0, "Validating file...")
  /\ pcMain' = "check"
  /\ UNCHANGED <<fileVars, outerVars, idVars, pcBg, mainLocals, storeVars, sttVars, llmVars,
                 guardVars, resultVars, bgLocals, upload_complete>>

\* Mutant of RejectFile: the file is written before it is validated.
RejectFile_SavesFirst ==
  /\ pcMain = "check"
  /\ ValidationError(filename, file_size) # ""
  /\ send_progress("error", 0, ValidationError(filename, file_size))
  /\ files' = files \cup {[uuid |-> 1, ext |-> splitext(filename)]}
  /\ pcMain' = "returned"
  /\ UNCHANGED <<fileVars, outerVars, idVars, pcBg, mainLocals, calls, sttVars, llmVars,
                 guardVars, resultVars, bgLocals, upload_complete>>

\* Lines 52-71, a validation fails: the error event, and return.
RejectFile ==
  /\ pcMain = "check"
  /\ ValidationError(filename, file_size) # ""
  /\ send_progress("error", 0, ValidationError(filename, file_size))
  /\ pcMain' = "returned"
  /\ UNCHANGED <<fileVars, outerVars, idVars, pcBg, mainLocals, storeVars, sttVars, llmVars,
                 guardVars, resultVars, bgLocals, upload_complete>>

\* Lines 52-73, every validation passes.
AcceptFile ==
  /\ pcMain = "check"
  /\ ValidationError(filename, file_size) = ""
  /\ send_progress("uploading", 10, "Saving file...")
  /\ pcMain' = "name"
  /\ UNCHANGED <<fileVars, outerVars, idVars, pcBg, mainLocals, storeVars, sttVars, llmVars,
                 guardVars, resultVars, bgLocals, upload_complete>>

\* Lines 76-83: the sanitised name, and the unique path of the artifact.
GenerateName ==
  /\ pcMain = "name"
  /\ original_filename' = secure_filename(filename)
  /\ IF original_filename' = <<>>
     THEN /\ send_progress("error", 0, "Invalid filename")
          /\ pcMain' = "returned"
          /\ UNCHANGED <<file_path, last_uuid>>
     ELSE /\ last_uuid' = last_uuid + 1
          /\ file_path' = [uuid |-> last_uuid', ext |-> splitext(original_filename')]
          /\ pcMain' = "save"
          /\ UNCHANGED eventVars
  /\ UNCHANGED <<fileVars, outerVars, last_object_id, pcBg, call_id, e, storeVars, sttVars, llmVars,
                 guardVars, resultVars, bgLocals, upload_complete>>

\* Line 86, file.save(file_path) returns.
SaveFile ==
  /\ pcMain = "save"
  /\ files' = files \cup {file_path}
  /\ pcMain' = "saved"
  /\ UNCHANGED <<fileVars, outerVars, idVars, pcBg, mainLocals, calls, sttVars, llmVars,
                 guardVars, resultVars, bgLocals, eventVars, upload_complete>>

\* Line 86, file.save(file_path) raises, before or after it created the file.
SaveFileRaises ==
  /\ pcMain = "save"
  /\ \E created \in BOOLEAN :
       files' = IF created THEN files \cup {file_path} ELSE files
  /\ e' = "save failed"
  /\ pcMain' = "except"
  /\ UNCHANGED <<fileVars, outerVars, idVars, pcBg, call_id, file_path, original_filename, calls,
                 sttVars, llmVars, guardVars, resultVars, bgLocals, eventVars,
                 upload_complete>>

\* Line 87.
FileSaved ==
  /\ pcMain = "saved"
  /\ send_progress("uploading", 20, "File saved")
  /\ pcMain' = "record"
  /\ UNCHANGED <<fileVars, outerVars, idVars, pcBg, mainLocals, storeVars, sttVars, llmVars,
                 guardVars, resultVars, bgLocals, upload_complete>>

\* Line 90.
CreatingRecord ==
  /\ pcMain = "record"
  /\ send_progress("processing", 25, "Creating call record...")
  /\ pcMain' = "create"
  /\ UNCHANGED <<fileVars, outerVars, idVars, pcBg, mainLocals, storeVars, sttVars, llmVars,
                 guardVars, resultVars, bgLocals, upload_complete>>

\* Lines 91-94, create_call_record returns the id of the inserted document.
CreateRecord ==
  /\ pcMain = "create"
  /\ last_object_id' = last_object_id + 1
  /\ call_id' = last_object_id'
  /\ calls' = calls @@ (call_id' :> NewCallDoc(original_filename, file_path))
  /\ pcMain' = "created"
  /\ UNCHANGED <<fileVars, outerVars, last_uuid, pcBg, file_path, original_filename, e, files,
                 sttVars, llmVars, guardVars, resultVars, bgLocals, eventVars,
                 upload_complete>>

\* Lines 91-94, create_call_record raises (it re-raises what insert_one raised).
CreateRecordRaises ==
  /\ pcMain = "create"
  /\ e' = "insert failed"
  /\ pcMain' = "except"
  /\ UNCHANGED <<fileVars, outerVars, idVars, pcBg, call_id, file_path, original_filename,
                 storeVars, sttVars, llmVars, guardVars, resultVars, bgLocals,
                 eventVars, upload_complete>>

\* Line 95.
RecordCreated ==
  /\ pcMain = "created"
  /\ send_progress("processing", 30, "Call record created")
  /\ pcMain' = "announce"
  /\ UNCHANGED <<fileVars, outerVars, idVars, pcBg, mainLocals, storeVars, sttVars, llmVars,
                 guardVars, resultVars, bgLocals, upload_complete>>

\* Line 98.
StartingTranscription ==
  /\ pcMain = "announce"
  /\ send_progress("transcribing", 30, "Starting transcription...")
  /\ pcMain' = "spawn"
  /\ UNCHANGED <<fileVars, outerVars, idVars, pcBg, mainLocals, storeVars, sttVars, llmVars,
                 guardVars, resultVars, bgLocals, upload_complete>>

\* Lines 292-294: the background thread starts, process_upload_async returns.
StartThread ==
  /\ pcMain = "spawn"
  /\ pcBg' = "begin"
  /\ pcMain' = "returned"
  /\ UNCHANGED <<fileVars, outerVars, idVars, mainLocals, storeVars, sttVars, llmVars, guardVars,
                 resultVars, bgLocals, eventVars, upload_complete>>

\* Line 294, thread.start() raises (no thread can be started).
StartThreadRaises ==
  /\ pcMain = "spawn"
  /\ e' = "can't start new thread"
  /\ pcMain' = "except"
  /\ UNCHANGED <<fileVars, outerVars, idVars, pcBg, call_id, file_path, original_filename,
                 storeVars, sttVars, llmVars, guardVars, resultVars, bgLocals,
                 eventVars, upload_complete>>

\* Lines 296-301: the handler of process_upload_async reports the exception.
HandleError ==
  /\ pcMain = "except"
  /\ send_progress("error", 0, "Error: " \o e)
  /\ pcMain' = "cleanup"
  /\ UNCHANGED <<fileVars, outerVars, idVars, pcBg, mainLocals, storeVars, sttVars, llmVars,
                 guardVars, resultVars, bgLocals, upload_complete>>

\* Mutant of Cleanup: the artifact is not removed.
Cleanup_KeepsFile ==
  /\ pcMain = "cleanup"
  /\ calls' = IF call_id # 0 THEN DeletedCalls(calls, call_id) ELSE calls
  /\ pcMain' = "notify"
  /\ UNCHANGED <<fileVars, outerVars, idVars, pcBg, mainLocals, files, sttVars, llmVars, guardVars,
                 resultVars, bgLocals, eventVars, upload_complete>>

\* Lines 304-313: delete the record if one was created, remove the artifact
\* if it exists.
Cleanup ==
  /\ pcMain = "cleanup"
  /\ calls' = IF call_id # 0 THEN DeletedCalls(calls, call_id) ELSE calls
  /\ files' = IF file_path # NoPath THEN files \ {file_path} ELSE files
  /\ pcMain' = "notify"
  /\ UNCHANGED <<fileVars, outerVars, idVars, pcBg, mainLocals, sttVars, llmVars, guardVars,
                 resultVars, bgLocals, eventVars, upload_complete>>

\* Lines 315-324: the upload_complete message of a failure.
SendFailure ==
  /\ pcMain = "notify"
  /\ send_complete([session_id |-> session_id, success |-> FALSE, error |-> e,
                    data |-> PyNone])
  /\ pcMain' = "returned"
  /\ UNCHANGED <<fileVars, outerVars, idVars, pcBg, mainLocals, storeVars, sttVars, llmVars,
                 guardVars, resultVars, bgLocals, lastEvent, evParity, nTerminal>>

MainNext ==
  \/ Validating \/ RejectFile \/ AcceptFile \/ GenerateName
  \/ SaveFile \/ SaveFileRaises \/ FileSaved
  \/ CreatingRecord \/ CreateRecord \/ CreateRecordRaises \/ RecordCreated
  \/ StartingTranscription \/ StartThread \/ StartThreadRaises
  \/ HandleError \/ Cleanup \/ SendFailure

\* --------------------------------- transcription_progress, the background thread

\* str.strip() leaves nothing.
IsBlank(s) == \A i \in DOMAIN s : s[i] = " "

EmptyTranscript == Word("[Empty transcript - audio may be silent or unclear]")

Min(a, b) == IF a < b THEN a ELSE b

\* Mutant of TranscribePercent: the first phase ramps by 45 points and is
\* not clamped.
TranscribePercent_RampsBy45(h) ==
  IF h < 2 * estimated_duration
  THEN 35 + (h * 45) \div (2 * estimated_duration)
  ELSE Min(35 + (h * 35) \div (2 * timeout_seconds), 70)

\* Lines 137-142: the percent of a transcribing tick, h half seconds after
\* the start.
TranscribePercent(h) ==
  IF h < 2 * estimated_duration
  THEN Min(35 + (h * 35) \div (2 * estimated_duration), 70)
  ELSE Min(35 + (h * 35) \div (2 * timeout_seconds), 70)

\* Line 207: the percent of an analyzing tick.
AnalyzePercent(h) == Min(70 + (h * 20) \div (2 * timeout_llm), 90)

\* Mutant of TickDue: a tick is due whenever the second is even.
TickDue_AtEveryLook(h, last) == (h \div 2) % 2 = 0

\* Lines 132-133 and 203-204: a tick is due at an even second that has not
\* been reported.
TickDue(h, last) == (h \div 2) # last /\ (h \div 2) % 2 = 0

\* Lines 126-150 and 197-214: once a guard's loop is left its elapsed time and
\* its last reported second are never read again; the model forgets them.
LoopLeft == elapsed' = 0 /\ last_update' = 0

\* Line 104.
ProcessingAudio ==
  /\ pcBg = "begin"
  /\ send_progress("transcribing", 35, "Processing audio...")
  /\ pcBg' = "start_stt"
  /\ UNCHANGED <<fileVars, outerVars, idVars, pcMain, mainLocals, storeVars, sttVars, llmVars,
                 guardVars, resultVars, bgLocals, upload_complete>>

\* Lines 107-125: the worker thread do_transcribe starts, the guard's clock too.
StartTranscribe ==
  /\ pcBg = "start_stt"
  /\ transcript' = PyNone
  /\ transcription_error' = ""
  /\ transcribe_thread' = "alive"
  /\ elapsed' = 0
  /\ last_update' = 0
  /\ pcBg' = "guard_stt"
  /\ UNCHANGED <<fileVars, outerVars, idVars, pcMain, mainLocals, storeVars, llmVars, resultVars,
                 bgLocals, eventVars, upload_complete>>

\* Lines 110-115, do_transcribe: the engine returns a text.
DoTranscribe ==
  /\ transcribe_thread = "alive"
  /\ file_path \in files
  /\ \E t \in Texts : transcript' = PyStr(t)
  /\ transcribe_thread' = "finished"
  /\ UNCHANGED <<fileVars, outerVars, idVars, pcMain, pcBg, mainLocals, storeVars,
                 transcription_error, llmVars, guardVars, resultVars, bgLocals,
                 eventVars, upload_complete>>

\* Lines 110-115, do_transcribe: the engine raises, the worker keeps the
\* exception.
DoTranscribeRaises ==
  /\ transcribe_thread = "alive"
  /\ transcription_error' = IF file_path \in files THEN "engine failure"
                            ELSE "Audio file not found"
  /\ transcribe_thread' = "finished"
  /\ UNCHANGED <<fileVars, outerVars, idVars, pcMain, pcBg, mainLocals, storeVars, transcript,
                 llmVars, guardVars, resultVars, bgLocals, eventVars,
                 upload_complete>>

\* Mutant of GuardTranscribe: after a timeout the transcription is started
\* again.
GuardTranscribe_Retries ==
  /\ pcBg = "guard_stt"
  /\ IF transcribe_thread # "alive"
     THEN /\ pcBg' = "join_stt"
          /\ LoopLeft
          /\ UNCHANGED <<e_stt, eventVars>>
     ELSE IF elapsed > 2 * timeout_seconds
     THEN /\ pcBg' = "start_stt"
          /\ LoopLeft
          /\ UNCHANGED <<e_stt, eventVars>>
     ELSE /\ IF TickDue(elapsed, last_update)
             THEN /\ last_update' = elapsed \div 2
                  /\ send_progress("transcribing", TranscribePercent(elapsed),
                       "Transcribing audio... (" \o ToString(elapsed \div 2) \o "s)")
             ELSE UNCHANGED <<last_update, eventVars>>
          /\ \E slept \in 1..MaxSleep : elapsed' = elapsed + slept
          /\ UNCHANGED <<pcBg, e_stt>>
  /\ UNCHANGED <<fileVars, outerVars, idVars, pcMain, mainLocals, storeVars, sttVars, llmVars,
                 resultVars, transcript_for_analysis, llm_error, call_record,
                 upload_complete>>

\* Mutant of GuardTranscribe: a worker past its budget is given a new budget.
GuardTranscribe_WaitsOn ==
  /\ pcBg = "guard_stt"
  /\ IF transcribe_thread # "alive"
     THEN /\ pcBg' = "join_stt"
          /\ LoopLeft
          /\ UNCHANGED <<e_stt, eventVars>>
     ELSE IF elapsed > 2 * timeout_seconds
     THEN /\ elapsed' = 0
          /\ UNCHANGED <<pcBg, last_update, e_stt, eventVars>>
     ELSE /\ IF TickDue(elapsed, last_update)
             THEN /\ last_update' = elapsed \div 2
                  /\ send_progress("transcribing", TranscribePercent(elapsed),
                       "Transcribing audio... (" \o ToString(elapsed \div 2) \o "s)")
             ELSE UNCHANGED <<last_update, eventVars>>
          /\ \E slept \in 1..MaxSleep : elapsed' = elapsed + slept
          /\ UNCHANGED <<pcBg, e_stt>>
  /\ UNCHANGED <<fileVars, outerVars, idVars, pcMain, mainLocals, storeVars, sttVars, llmVars,
                 resultVars, transcript_for_analysis, llm_error, call_record,
                 upload_complete>>

\* Lines 126-150: one turn of the loop that guards the transcription worker.
GuardTranscribe ==
  /\ pcBg = "guard_stt"
  /\ IF transcribe_thread # "alive"
     THEN /\ pcBg' = "join_stt"
          /\ LoopLeft
          /\ UNCHANGED <<e_stt, eventVars>>
     ELSE IF elapsed > 2 * timeout_seconds
     THEN /\ e_stt' = TranscriptionTimeout
          /\ pcBg' = "failed"
          /\ LoopLeft
          /\ UNCHANGED eventVars
     ELSE /\ IF TickDue(elapsed, last_update)
             THEN /\ last_update' = elapsed \div 2
                  /\ send_progress("transcribing", TranscribePercent(elapsed),
                       "Transcribing audio... (" \o ToString(elapsed \div 2) \o "s)")
             ELSE UNCHANGED <<last_update, eventVars>>
          /\ \E slept \in 1..MaxSleep : elapsed' = elapsed + slept
          /\ UNCHANGED <<pcBg, e_stt>>
  /\ UNCHANGED <<fileVars, outerVars, idVars, pcMain, mainLocals, storeVars, sttVars, llmVars,
                 resultVars, transcript_for_analysis, llm_error, call_record,
                 upload_complete>>

\* Mutant of JoinTranscribe: an empty transcript is a failure of the stage.
JoinTranscribe_BlankFails ==
  /\ pcBg = "join_stt"
  /\ IF transcription_error # "" \/ ~Truthy(transcript) \/ IsBlank(transcript.v)
     THEN /\ e_stt' = IF transcription_error # "" THEN transcription_error
                       ELSE "Empty transcript"
          /\ pcBg' = "failed"
          /\ UNCHANGED transcript
     ELSE /\ pcBg' = "stt_done"
          /\ UNCHANGED <<transcript, e_stt>>
  /\ UNCHANGED <<fileVars, outerVars, idVars, pcMain, mainLocals, storeVars, transcribe_thread,
                 transcription_error, llmVars, guardVars, resultVars,
                 transcript_for_analysis, llm_error, call_record, eventVars,
                 upload_complete>>

\* Lines 152-158: the worker's exception is raised again; an empty transcript
\* is replaced.
JoinTranscribe ==
  /\ pcBg = "join_stt"
  /\ IF transcription_error # ""
     THEN /\ e_stt' = transcription_error
          /\ pcBg' = "failed"
          /\ UNCHANGED transcript
     ELSE /\ transcript' = IF ~Truthy(transcript) \/ IsBlank(transcript.v)
                           THEN EmptyTranscript
                           ELSE transcript
          /\ pcBg' = "stt_done"
          /\ UNCHANGED e_stt
  /\ UNCHANGED <<fileVars, outerVars, idVars, pcMain, mainLocals, storeVars, transcribe_thread,
                 transcription_error, llmVars, guardVars, resultVars,
                 transcript_for_analysis, llm_error, call_record, eventVars,
                 upload_complete>>

\* Mutant of TranscriptionComplete: the transcript is saved as soon as the
\* transcription stage has it.
TranscriptionComplete_SavesTranscript ==
  /\ pcBg = "stt_done"
  /\ send_progress("transcribing", 70, "Transcription complete")
  /\ calls' = UpdatedCalls(calls, call_id, transcript, PyNone, PyNone, PyNone,
                           PyNone, PyNone, PyNone, PyNone)
  /\ pcBg' = "announce_llm"
  /\ UNCHANGED <<fileVars, outerVars, idVars, pcMain, mainLocals, files, sttVars, llmVars,
                 guardVars, resultVars, bgLocals, upload_complete>>

\* Line 160.
TranscriptionComplete ==
  /\ pcBg = "stt_done"
  /\ send_progress("transcribing", 70, "Transcription complete")
  /\ pcBg' = "announce_llm"
  /\ UNCHANGED <<fileVars, outerVars, idVars, pcMain, mainLocals, storeVars, sttVars, llmVars,
                 guardVars, resultVars, bgLocals, upload_complete>>

\* Mutant of TranscriptionFailed: the exception ends the thread unreported.
TranscriptionFailed_Silent ==
  /\ pcBg = "failed"
  /\ pcBg' = "dead"
  /\ UNCHANGED <<fileVars, outerVars, idVars, pcMain, mainLocals, storeVars, sttVars, llmVars,
                 guardVars, resultVars, bgLocals, eventVars, upload_complete>>

\* Mutant of TranscriptionFailed: the exception is reported and not raised
\* again, so the thread goes on to the analysis.
TranscriptionFailed_Continues ==
  /\ pcBg = "failed"
  /\ send_progress("error", 0, "Transcription failed: " \o e_stt)
  /\ pcBg' = "announce_llm"
  /\ UNCHANGED <<fileVars, outerVars, idVars, pcMain, mainLocals, storeVars, sttVars, llmVars,
                 guardVars, resultVars, bgLocals, upload_complete>>

\* Mutant of TranscriptionFailed: the failure is written to the record as its
\* transcript.
TranscriptionFailed_MarksRecord ==
  /\ pcBg = "failed"
  /\ send_progress("error", 0, "Transcription failed: " \o e_stt)
  /\ calls' = UpdatedCalls(calls, call_id, Word("[Transcription failed]"),
                           PyNone, PyNone, PyNone, PyNone, PyNone, PyNone,
                           PyNone)
  /\ pcBg' = "dead"
  /\ UNCHANGED <<fileVars, outerVars, idVars, pcMain, mainLocals, files, sttVars, llmVars,
                 guardVars, resultVars, bgLocals, upload_complete>>

\* Lines 161-164: the error event, then the exception is raised again and
\* ends the thread (nothing catches it).
TranscriptionFailed ==
  /\ pcBg = "failed"
  /\ send_progress("error", 0, "Transcription failed: " \o e_stt)
  /\ pcBg' = "dead"
  /\ UNCHANGED <<fileVars, outerVars, idVars, pcMain, mainLocals, storeVars, sttVars, llmVars,
                 guardVars, resultVars, bgLocals, upload_complete>>

\* Line 167.
Analyzing ==
  /\ pcBg = "announce_llm"
  /\ send_progress("analyzing", 70, "Analyzing transcript...")
  /\ pcBg' = "start_llm"
  /\ UNCHANGED <<fileVars, outerVars, idVars, pcMain, mainLocals, storeVars, sttVars, llmVars,
                 guardVars, resultVars, bgLocals, upload_complete>>

\* Mutant of Truncated: the prefix alone is handed on.
Truncated_PrefixOnly(t) ==
  IF Len(t.v) > max_transcript_length
  THEN PyStr(SubSeq(t.v, 1, max_transcript_length))
  ELSE t

\* Lines 171-176.
Truncated(t) ==
  IF Len(t.v) > max_transcript_length
  THEN PyStr(SubSeq(t.v, 1, max_transcript_length) \o <<"... [truncated]">>)
  ELSE t

\* Lines 170-196: the worker thread do_analyze starts, the guard's clock too.
StartAnalyze ==
  /\ pcBg = "start_llm"
  /\ transcript_for_analysis' = Truncated(transcript)
  /\ analysis' = PyNone
  /\ analysis_error' = ""
  /\ analyze_thread' = "alive"
  /\ elapsed' = 0
  /\ last_update' = 0
  /\ pcBg' = "guard_llm"
  /\ UNCHANGED <<fileVars, outerVars, idVars, pcMain, mainLocals, storeVars, sttVars, resultVars,
                 e_stt, llm_error, call_record, eventVars, upload_complete>>

\* Lines 183-188, do_analyze: the engine returns a value.
DoAnalyze ==
  /\ analyze_thread = "alive"
  /\ \E i \in DOMAIN AnalysisResults : analysis' = AnalysisResults[i]
  /\ analyze_thread' = "finished"
  /\ UNCHANGED <<fileVars, outerVars, idVars, pcMain, pcBg, mainLocals, storeVars, sttVars,
                 analysis_error, guardVars, resultVars, bgLocals, eventVars,
                 upload_complete>>

\* Lines 183-188, do_analyze: the engine raises, the worker keeps the exception.
DoAnalyzeRaises ==
  /\ analyze_thread = "alive"
  /\ analysis_error' = "LLM failure"
  /\ analyze_thread' = "finished"
  /\ UNCHANGED <<fileVars, outerVars, idVars, pcMain, pcBg, mainLocals, storeVars, sttVars,
                 analysis, guardVars, resultVars, bgLocals, eventVars,
                 upload_complete>>

\* Mutant of GuardAnalyze: the timeout of the analysis is handled like the
\* timeout of the transcription.
GuardAnalyze_FatalTimeout ==
  /\ pcBg = "guard_llm"
  /\ IF analyze_thread # "alive"
     THEN /\ pcBg' = "join_llm"
          /\ LoopLeft
          /\ UNCHANGED <<llm_error, e_stt, eventVars>>
     ELSE IF elapsed > 2 * timeout_llm
     THEN /\ llm_error' = AnalysisTimeout
          /\ e_stt' = AnalysisTimeout
          /\ pcBg' = "failed"
          /\ LoopLeft
          /\ UNCHANGED eventVars
     ELSE /\ IF TickDue(elapsed, last_update)
             THEN /\ last_update' = elapsed \div 2
                  /\ send_progress("analyzing", AnalyzePercent(elapsed),
                       "Analyzing transcript... (" \o ToString(elapsed \div 2) \o "s)")
             ELSE UNCHANGED <<last_update, eventVars>>
          /\ \E slept \in 1..MaxSleep : elapsed' = elapsed + slept
          /\ UNCHANGED <<pcBg, llm_error, e_stt>>
  /\ UNCHANGED <<fileVars, outerVars, idVars, pcMain, mainLocals, storeVars, sttVars, llmVars,
                 resultVars, transcript_for_analysis, call_record,
                 upload_complete>>

\* Lines 197-214: one turn of the loop that guards the analysis worker.
GuardAnalyze ==
  /\ pcBg = "guard_llm"
  /\ IF analyze_thread # "alive"
     THEN /\ pcBg' = "join_llm"
          /\ LoopLeft
          /\ UNCHANGED <<llm_error, eventVars>>
     ELSE IF elapsed > 2 * timeout_llm
     THEN /\ llm_error' = AnalysisTimeout
          /\ pcBg' = "fallback"
          /\ LoopLeft
          /\ UNCHANGED eventVars
     ELSE /\ IF TickDue(elapsed, last_update)
             THEN /\ last_update' = elapsed \div 2
                  /\ send_progress("analyzing", AnalyzePercent(elapsed),
                       "Analyzing transcript... (" \o ToString(elapsed \div 2) \o "s)")
             ELSE UNCHANGED <<last_update, eventVars>>
          /\ \E slept \in 1..MaxSleep : elapsed' = elapsed + slept
          /\ UNCHANGED <<pcBg, llm_error>>
  /\ UNCHANGED <<fileVars, outerVars, idVars, pcMain, mainLocals, storeVars, sttVars, llmVars,
                 resultVars, e_stt, transcript_for_analysis, call_record,
                 upload_complete>>

\* Mutant of AsList: a value that is no list is dropped.
AsList_Drops(x) == IF x.ty = "list" THEN x ELSE PyList(<<>>)

\* Lines 238-243: a value that is no list becomes the list holding it, or the
\* empty list when it is false.
AsList(x) ==
  IF x.ty = "list" THEN x
  ELSE IF Truthy(x) THEN ListOf(x) ELSE PyList(<<>>)

\* Lines 244-245.
AsDict(x) == IF x.ty = "dict" THEN x ELSE PyDict(<<>>)

\* Lines 221-228: the exception the worker's outcome raises, "" when none.
AnalysisFailure(err, result) ==
  IF err # "" THEN err
  ELSE IF ~Truthy(result) THEN "No analysis result from LLM"
  ELSE IF result.ty # "dict" THEN "Invalid analysis result from LLM"
  ELSE ""

\* Lines 216-245: the worker's outcome is checked and its fields are read.
JoinAnalyze ==
  /\ pcBg = "join_llm"
  /\ IF AnalysisFailure(analysis_error, analysis) # ""
     THEN /\ llm_error' = AnalysisFailure(analysis_error, analysis)
          /\ pcBg' = "fallback"
          /\ UNCHANGED resultVars
     ELSE /\ summary' = Get(analysis, "summary", Word("Unable to generate summary."))
          /\ tags' = AsList(Get(analysis, "tags", PyList(<<>>)))
          /\ roles' = AsDict(Get(analysis, "roles", PyDict(<<>>)))
          /\ emotions' = AsList(Get(analysis, "emotions", PyList(<<>>)))
          /\ intent' = Get(analysis, "intent", Word("unknown"))
          /\ mood' = Get(analysis, "mood", Word("neutral"))
          /\ insights' = AsList(Get(analysis, "insights", PyList(<<>>)))
          /\ pcBg' = "analysis_done"
          /\ UNCHANGED llm_error
  /\ UNCHANGED <<fileVars, outerVars, idVars, pcMain, mainLocals, storeVars, sttVars, llmVars,
                 guardVars, e_stt, transcript_for_analysis, call_record,
                 eventVars, upload_complete>>

\* Lines 247-255: any exception of the analysis stage gives the fixed result.
Fallback ==
  /\ pcBg = "fallback"
  /\ summary' = Word("Analysis failed - transcript available but summary could not be generated.")
  /\ tags' = PyList(<<Word("analysis-error")>>)
  /\ roles' = PyDict(<<>>)
  /\ emotions' = PyList(<<>>)
  /\ intent' = Word("unknown")
  /\ mood' = Word("neutral")
  /\ insights' = PyList(<<>>)
  /\ pcBg' = "analysis_done"
  /\ UNCHANGED <<fileVars, outerVars, idVars, pcMain, mainLocals, storeVars, sttVars, llmVars,
                 guardVars, bgLocals, eventVars, upload_complete>>

\* Mutant of AnalysisComplete: the end of the analysis is reported at 95.
AnalysisComplete_At95 ==
  /\ pcBg = "analysis_done"
  /\ send_progress("analyzing", 95, "Analysis complete")
  /\ pcBg' = "saving"
  /\ UNCHANGED <<fileVars, outerVars, idVars, pcMain, mainLocals, storeVars, sttVars, llmVars,
                 guardVars, resultVars, bgLocals, upload_complete>>

\* Line 257.
AnalysisComplete ==
  /\ pcBg = "analysis_done"
  /\ send_progress("analyzing", 90, "Analysis complete")
  /\ pcBg' = "saving"
  /\ UNCHANGED <<fileVars, outerVars, idVars, pcMain, mainLocals, storeVars, sttVars, llmVars,
                 guardVars, resultVars, bgLocals, upload_complete>>

\* Line 260.
Saving ==
  /\ pcBg = "saving"
  /\ send_progress("saving", 90, "Saving results...")
  /\ pcBg' = "update"
  /\ UNCHANGED <<fileVars, outerVars, idVars, pcMain, mainLocals, storeVars, sttVars, llmVars,
                 guardVars, resultVars, bgLocals, upload_complete>>

\* Mutant of UpdateRecord: the tags saved are read from the worker's variable
\* when it holds a mapping by the time of the save.
UpdateRecord_ReadsWorker ==
  /\ pcBg = "update"
  /\ \E stored \in BOOLEAN :
       calls' = IF stored
                THEN UpdatedCalls(calls, call_id, transcript, summary,
                                  IF analysis.ty = "dict" /\ "tags" \in DOMAIN analysis.v
                                  THEN analysis.v["tags"] ELSE tags,
                                  roles, emotions, intent, mood, insights)
                ELSE calls
  /\ pcBg' = "read"
  /\ UNCHANGED <<fileVars, outerVars, idVars, pcMain, mainLocals, files, sttVars, llmVars,
                 guardVars, resultVars, bgLocals, eventVars, upload_complete>>

\* Mutant of UpdateRecord: the record updated is the one created last.
UpdateRecord_UpdatesLatest ==
  /\ pcBg = "update"
  /\ \E stored \in BOOLEAN :
       calls' = IF stored
                THEN UpdatedCalls(calls, last_object_id, transcript, summary,
                                  tags, roles, emotions, intent, mood, insights)
                ELSE calls
  /\ pcBg' = "read"
  /\ UNCHANGED <<fileVars, outerVars, idVars, pcMain, mainLocals, files, sttVars, llmVars,
                 guardVars, resultVars, bgLocals, eventVars, upload_complete>>

\* Lines 262-272: update_call_record; it returns False, and changes nothing,
\* when update_one raises.
UpdateRecord ==
  /\ pcBg = "update"
  /\ \E stored \in BOOLEAN :
       calls' = IF stored
                THEN UpdatedCalls(calls, call_id, transcript, summary, tags,
                                  roles, emotions, intent, mood, insights)
                ELSE calls
  /\ pcBg' = "read"
  /\ UNCHANGED <<fileVars, outerVars, idVars, pcMain, mainLocals, files, sttVars, llmVars,
                 guardVars, resultVars, bgLocals, eventVars, upload_complete>>

\* Line 275: get_call_by_id; it returns None when find_one raises.
ReadRecord ==
  /\ pcBg = "read"
  /\ \E found \in BOOLEAN :
       call_record' = IF found THEN GetCallById(calls, call_id) ELSE PyNone
  /\ pcBg' = "complete"
  /\ UNCHANGED <<fileVars, outerVars, idVars, pcMain, mainLocals, storeVars, sttVars, llmVars,
                 guardVars, resultVars, e_stt, transcript_for_analysis,
                 llm_error, eventVars, upload_complete>>

\* Line 277.
Complete ==
  /\ pcBg = "complete"
  /\ send_progress("complete", 100, "Processing complete!")
  /\ pcBg' = "notify"
  /\ UNCHANGED <<fileVars, outerVars, idVars, pcMain, mainLocals, storeVars, sttVars, llmVars,
                 guardVars, resultVars, bgLocals, upload_complete>>

\* Lines 280-289: the upload_complete message of a success.
SendResult ==
  /\ pcBg = "notify"
  /\ send_complete([session_id |-> session_id, success |-> TRUE, error |-> "",
                    data |-> call_record])
  /\ pcBg' = "done"
  /\ UNCHANGED <<fileVars, outerVars, idVars, pcMain, mainLocals, storeVars, sttVars, llmVars,
                 guardVars, resultVars, bgLocals, lastEvent, evParity, nTerminal>>

BgNext ==
  \/ ProcessingAudio \/ StartTranscribe \/ GuardTranscribe \/ JoinTranscribe
  \/ TranscriptionComplete \/ TranscriptionFailed
  \/ Analyzing \/ StartAnalyze \/ GuardAnalyze \/ JoinAnalyze \/ Fallback
  \/ AnalysisComplete \/ Saving \/ UpdateRecord \/ ReadRecord
  \/ Complete \/ SendResult

WorkerNext == DoTranscribe \/ DoTranscribeRaises \/ DoAnalyze \/ DoAnalyzeRaises

Next == MainNext \/ BgNext \/ WorkerNext

Spec == Init /\ [][Next]_vars

\* One submission with a file of 50 bytes, named a.wav or a.pdf.
SmallInit ==
  /\ Init
  /\ filename \in {<<"a", ".", "w", "a", "v">>, <<"a", ".", "p", "d", "f">>}
  /\ file_size = 50

\* The request thread and the background thread keep being scheduled; a
\* worker thread may hang in its engine forever.
FairSpec == SmallInit /\ [][Next]_vars /\ WF_vars(MainNext) /\ WF_vars(BgNext)

\* ------------------------------------------------ the route POST /api/calls

\* calls_routes.upload_call, lines 25-42: a request with a session id is
\* handed to process_upload_async, unless it has no file or no filename; a
\* request with none is handed to calls_controller.upload_and_process.
UploadCall ==
  /\ pcMain = "route"
  /\ IF session_id # ""
     THEN IF ~has_file
          THEN /\ response' = 400
               /\ body' = Failure(<<"No file provided">>)
               /\ pcMain' = "responded"
          ELSE IF filename = <<>>
          THEN /\ response' = 400
               /\ body' = Failure(<<"No file selected">>)
               /\ pcMain' = "responded"
          ELSE /\ pcMain' = "start"
               /\ UNCHANGED <<response, body>>
     ELSE /\ pcMain' = "sync"
          /\ UNCHANGED <<response, body>>
  /\ UNCHANGED <<fileVars, other, called, request, query, svcVars, idVars,
                 pcBg, mainLocals, storeVars, sttVars, llmVars, guardVars,
                 resultVars, bgLocals, eventVars, upload_complete>>

\* Lines 46-50: the body of the answer 202.
Started ==
  PyDict([success |-> PyBool(TRUE), message |-> Word("Upload started"),
          session_id |-> Word(session_id)])

\* Mutant of UploadStarted: the route answers once the background thread has
\* ended.
UploadStarted_Waits ==
  /\ pcMain = "returned"
  /\ pcBg \in {"unstarted", "done", "dead"}
  /\ response' = IF nTerminal = 1 /\ lastEvent.stage = "error" THEN 500 ELSE 202
  /\ body' = Started
  /\ pcMain' = "responded"
  /\ UNCHANGED <<fileVars, other, called, request, query, svcVars, idVars,
                 pcBg, mainLocals, storeVars, sttVars, llmVars, guardVars,
                 resultVars, bgLocals, eventVars, upload_complete>>

\* calls_routes.upload_call, lines 43-50: process_upload_async has returned,
\* the route answers 202 'Upload started'.
UploadStarted ==
  /\ pcMain = "returned"
  /\ response' = 202
  /\ body' = Started
  /\ pcMain' = "responded"
  /\ UNCHANGED <<fileVars, other, called, request, query, svcVars, idVars,
                 pcBg, mainLocals, storeVars, sttVars, llmVars, guardVars,
                 resultVars, bgLocals, eventVars, upload_complete>>

\* ------------------------- calls_controller.upload_and_process, synchronous

\* What upload_and_process never touches.
notSync ==
  <<fileVars, other, request, query, svcVars, pcBg, e, transcribe_thread,
    transcription_error, analyze_thread, analysis_error, guardVars, e_stt,
    transcript_for_analysis, eventVars, upload_complete>>

\* Line 30, CallsController._allowed_file.
allowed_file(name) ==
  \E ext \in allowed_extensions : EndsWith(Lower(name), ext)

\* Line 65, f"{file_size / (1024*1024):.2f}": the size in megabytes with two
\* decimals, rounded, as a sequence of characters.
Megabytes(size) ==
  LET mb == 1024 * 1024
      hundredths == (size \div mb) * 100 + ((size % mb) * 100 + mb \div 2) \div mb
  IN Digits(hundredths \div 100) \o <<".">> \o
     Digits((hundredths % 100) \div 10) \o Digits(hundredths % 10)

\* Lines 35-72: the error of the validation that rejects the request, in
\* pieces, <<>> when none does.
SyncValidationError(has, name, size) ==
  IF ~has THEN <<"No file provided", ". Please include a 'file' field in the request.">>
  ELSE IF name = <<>> THEN <<"No file selected or ", "empty", " filename">>
  ELSE IF ~allowed_file(name)
       THEN <<"Invalid file type", ". Allowed types: ",
              ".flac, .m4a, .mp3, .ogg, .wav, .webm">>
  ELSE IF size > max_size
       THEN <<"File too large", ". Maximum size is 100MB, got ">>
            \o Megabytes(size) \o <<"MB">>
  ELSE IF size = 0 THEN <<"File is ", "empty">>
  ELSE <<>>

\* Mutant of SyncValidate: the file is saved before the request is validated.
SyncValidate_SavesFirst ==
  /\ pcMain = "sync"
  /\ files' = files \cup {[uuid |-> 1, ext |-> splitext(filename)]}
  /\ called' = called \o <<"save">>
  /\ IF SyncValidationError(has_file, filename, file_size) # <<>>
     THEN /\ response' = 400
          /\ body' = Failure(SyncValidationError(has_file, filename, file_size))
          /\ pcMain' = "responded"
     ELSE /\ pcMain' = "sync_name"
          /\ UNCHANGED <<response, body>>
  /\ UNCHANGED <<notSync, idVars, call_id, file_path, original_filename,
                 calls, transcript, analysis, resultVars, llm_error,
                 call_record>>

\* Lines 35-72: the validations, each answered with 400.
SyncValidate ==
  /\ pcMain = "sync"
  /\ IF SyncValidationError(has_file, filename, file_size) # <<>>
     THEN /\ response' = 400
          /\ body' = Failure(SyncValidationError(has_file, filename, file_size))
          /\ pcMain' = "responded"
     ELSE /\ pcMain' = "sync_name"
          /\ UNCHANGED <<response, body>>
  /\ UNCHANGED <<notSync, called, idVars, call_id, file_path,
                 original_filename, storeVars, transcript, analysis,
                 resultVars, llm_error, call_record>>

\* Lines 79-88.
SyncGenerateName ==
  /\ pcMain = "sync_name"
  /\ original_filename' = secure_filename(filename)
  /\ IF original_filename' = <<>>
     THEN /\ response' = 400
          /\ body' = Failure(<<"Invalid filename">>)
          /\ pcMain' = "responded"
          /\ UNCHANGED <<file_path, last_uuid>>
     ELSE /\ last_uuid' = last_uuid + 1
          /\ file_path' = [uuid |-> last_uuid', ext |-> splitext(original_filename')]
          /\ pcMain' = "sync_save"
          /\ UNCHANGED <<response, body>>
  /\ UNCHANGED <<notSync, called, last_object_id, call_id, storeVars,
                 transcript, analysis, resultVars, llm_error, call_record>>

\* Lines 91-105, the file is saved and is there.
SyncSaveFile ==
  /\ pcMain = "sync_save"
  /\ files' = files \cup {file_path}
  /\ called' = called \o <<"save">>
  /\ pcMain' = "sync_create"
  /\ UNCHANGED <<notSync, response, body, idVars, call_id, file_path,
                 original_filename, calls, transcript, analysis, resultVars,
                 llm_error, call_record>>

\* Lines 94-105, file.save raises or the file is not there, or is empty,
\* afterwards: 500, and what was written stays.
SyncSaveFileFails ==
  /\ pcMain = "sync_save"
  /\ \E raised \in BOOLEAN, created \in BOOLEAN :
       /\ files' = IF created THEN files \cup {file_path} ELSE files
       /\ body' = IF raised
                  THEN Failure(<<"Failed to save file: ", "save error">>)
                  ELSE Failure(<<"File was not saved correctly">>)
  /\ called' = called \o <<"save">>
  /\ response' = 500
  /\ pcMain' = "responded"
  /\ UNCHANGED <<notSync, idVars, call_id, file_path, original_filename, calls,
                 transcript, analysis, resultVars, llm_error, call_record>>

\* Mutant of SyncCreateRecord: the record is created again when it has
\* been created.
SyncCreateRecord_Twice ==
  /\ pcMain = "sync_create"
  /\ last_object_id' = last_object_id + 2
  /\ call_id' = last_object_id'
  /\ calls' = calls @@ ((last_object_id + 1) :> NewCallDoc(original_filename, file_path))
                    @@ (call_id' :> NewCallDoc(original_filename, file_path))
  /\ called' = called \o <<"create_call_record", "create_call_record">>
  /\ pcMain' = "sync_transcribe"
  /\ UNCHANGED <<notSync, response, body, last_uuid, file_path,
                 original_filename, files, transcript, analysis, resultVars,
                 llm_error, call_record>>

\* Lines 108-112.
SyncCreateRecord ==
  /\ pcMain = "sync_create"
  /\ last_object_id' = last_object_id + 1
  /\ call_id' = last_object_id'
  /\ calls' = calls @@ (call_id' :> NewCallDoc(original_filename, file_path))
  /\ called' = called \o <<"create_call_record">>
  /\ pcMain' = "sync_transcribe"
  /\ UNCHANGED <<notSync, response, body, last_uuid, file_path,
                 original_filename, files, transcript, analysis, resultVars,
                 llm_error, call_record>>

\* Lines 113-123, create_call_record raises: the file is removed, 500.
SyncCreateRecordFails ==
  /\ pcMain = "sync_create"
  /\ files' = files \ {file_path}
  /\ called' = called \o <<"create_call_record", "remove">>
  /\ response' = 500
  /\ body' = Failure(<<"Failed to create call record: ", "insert error">>)
  /\ pcMain' = "responded"
  /\ UNCHANGED <<notSync, idVars, call_id, file_path, original_filename, calls,
                 transcript, analysis, resultVars, llm_error, call_record>>

\* Line 128, the engine returns a text.
SyncTranscribe ==
  /\ pcMain = "sync_transcribe"
  /\ file_path \in files
  /\ \E t \in Texts : transcript' = PyStr(t)
  /\ called' = called \o <<"transcribe">>
  /\ pcMain' = "sync_check"
  /\ UNCHANGED <<notSync, response, body, idVars, call_id, file_path,
                 original_filename, storeVars, analysis, resultVars, llm_error,
                 call_record>>

\* Mutant of SyncTranscribeFails: the record and the file are cleaned up, as
\* the asynchronous pipeline does for its own failures.
SyncTranscribeFails_CleansUp ==
  /\ pcMain = "sync_transcribe"
  /\ call_record' = PyNone
  /\ called' = called \o <<"transcribe", "delete_call", "remove">>
  /\ calls' = DeletedCalls(calls, call_id)
  /\ files' = files \ {file_path}
  /\ body' = PyDict([success |-> PyBool(FALSE),
                     error |-> PyStr(<<"File uploaded but processing failed: ",
                                       "engine failure">>),
                     data |-> call_record',
                     call_id |-> PyInt(call_id)])
  /\ response' = 500
  /\ pcMain' = "responded"
  /\ UNCHANGED <<notSync, idVars, call_id, file_path, original_filename,
                 transcript, analysis, resultVars, llm_error>>

\* Lines 128 and 201-219, transcribe raises: 500, with the record as it was
\* created unless the file was not found.
SyncTranscribeFails ==
  /\ pcMain = "sync_transcribe"
  /\ IF file_path \in files
     THEN /\ call_record' = GetCallById(calls, call_id)
          /\ called' = called \o <<"transcribe", "get_call_by_id">>
          /\ body' = PyDict([success |-> PyBool(FALSE),
                             error |-> PyStr(<<"File uploaded but processing failed: ",
                                               "engine failure">>),
                             data |-> call_record',
                             call_id |-> PyInt(call_id)])
     ELSE /\ call_record' = call_record
          /\ called' = called \o <<"transcribe">>
          /\ body' = PyDict([success |-> PyBool(FALSE),
                             error |-> PyStr(<<"Audio file not found: ",
                                               "Audio file not found: ", "path">>),
                             call_id |-> PyInt(call_id)])
  /\ response' = 500
  /\ pcMain' = "responded"
  /\ UNCHANGED <<notSync, idVars, call_id, file_path, original_filename,
                 storeVars, transcript, analysis, resultVars, llm_error>>

\* Lines 131-133: an empty transcript is replaced.
SyncCheckTranscript ==
  /\ pcMain = "sync_check"
  /\ transcript' = IF ~Truthy(transcript) \/ IsBlank(transcript.v)
                   THEN EmptyTranscript
                   ELSE transcript
  /\ pcMain' = "sync_analyze"
  /\ UNCHANGED <<notSync, response, body, called, idVars, call_id, file_path,
                 original_filename, storeVars, analysis, resultVars, llm_error,
                 call_record>>

\* Lines 137-141: the exception the analysis raises, "" when none.
SyncAnalysisFailure(raised, result) ==
  IF raised THEN "LLM failure"
  ELSE IF ~Truthy(result) \/ result.ty # "dict"
       THEN "Invalid analysis result from LLM"
  ELSE ""

\* Lines 136-169: the analysis, its fields, and the fixed result when it fails.
SyncAnalyze ==
  /\ pcMain = "sync_analyze"
  /\ \E i \in DOMAIN AnalysisResults, raised \in BOOLEAN :
       LET result == AnalysisResults[i]
           failure == SyncAnalysisFailure(raised, result)
       IN /\ analysis' = IF raised THEN analysis ELSE result
          /\ llm_error' = failure
          /\ IF failure # ""
             THEN /\ summary' = Word("Analysis failed - transcript available but summary could not be generated.")
                  /\ tags' = PyList(<<Word("analysis-error")>>)
                  /\ roles' = PyDict(<<>>)
                  /\ emotions' = PyList(<<>>)
                  /\ intent' = Word("unknown")
                  /\ mood' = Word("neutral")
                  /\ insights' = PyList(<<>>)
             ELSE /\ summary' = Get(result, "summary", Word("Unable to generate summary."))
                  /\ tags' = AsList(Get(result, "tags", PyList(<<>>)))
                  /\ roles' = AsDict(Get(result, "roles", PyDict(<<>>)))
                  /\ emotions' = AsList(Get(result, "emotions", PyList(<<>>)))
                  /\ intent' = Get(result, "intent", Word("unknown"))
                  /\ mood' = Get(result, "mood", Word("neutral"))
                  /\ insights' = AsList(Get(result, "insights", PyList(<<>>)))
  /\ called' = called \o <<"analyze_transcript">>
  /\ pcMain' = "sync_update"
  /\ UNCHANGED <<notSync, response, body, idVars, call_id, file_path,
                 original_filename, storeVars, transcript, call_record>>

\* Lines 172-185: update_call_record; a failure is only logged.
SyncUpdateRecord ==
  /\ pcMain = "sync_update"
  /\ \E stored \in BOOLEAN :
       calls' = IF stored
                THEN UpdatedCalls(calls, call_id, transcript, summary, tags,
                                  roles, emotions, intent, mood, insights)
                ELSE calls
  /\ called' = called \o <<"update_call_record">>
  /\ pcMain' = "sync_read"
  /\ UNCHANGED <<notSync, response, body, idVars, call_id, file_path,
                 original_filename, files, transcript, analysis, resultVars,
                 llm_error, call_record>>

\* Lines 188-199: the record is read back; 201 with it, 500 without.
SyncReadRecord ==
  /\ pcMain = "sync_read"
  /\ \E found \in BOOLEAN :
       call_record' = IF found THEN GetCallById(calls, call_id) ELSE PyNone
  /\ called' = called \o <<"get_call_by_id">>
  /\ IF Truthy(call_record')
     THEN /\ response' = 201
          /\ body' = PyDict([success |-> PyBool(TRUE), data |-> call_record',
                             message |-> Word("Call processed successfully")])
     ELSE /\ response' = 500
          /\ body' = Failure(<<"Call record created but could not be retrieved">>)
  /\ pcMain' = "responded"
  /\ UNCHANGED <<notSync, idVars, call_id, file_path, original_filename,
                 storeVars, transcript, analysis, resultVars, llm_error>>

SyncNext ==
  \/ SyncValidate \/ SyncGenerateName \/ SyncSaveFile \/ SyncSaveFileFails
  \/ SyncCreateRecord \/ SyncCreateRecordFails
  \/ SyncTranscribe \/ SyncTranscribeFails \/ SyncCheckTranscript
  \/ SyncAnalyze \/ SyncUpdateRecord \/ SyncReadRecord

\* upload_and_process is called with a request: with or without a file, the
\* file of any name and size.
SyncInit ==
  /\ has_file \in BOOLEAN
  /\ filename \in (IF has_file THEN Filenames ELSE {<<>>})
  /\ file_size \in (IF has_file THEN FileSizes ELSE {0})
  /\ session_id = ""
  /\ pcMain = "sync"
  /\ Fresh

SyncSpec == SyncInit /\ [][SyncNext]_vars

\* The requests the route is given: with or without a session id, with or
\* without a file, the file named a.wav or a.pdf or not at all, of 0 or 50
\* bytes.
RouteInit ==
  /\ filename \in {<<>>, <<"a", ".", "w", "a", "v">>, <<"a", ".", "p", "d", "f">>}
  /\ file_size \in {0, 50}
  /\ has_file \in BOOLEAN
  /\ session_id \in SessionIds \cup {""}
  /\ pcMain = "route"
  /\ Fresh

\* The request thread, from the route on.
RequestNext == UploadCall \/ UploadStarted \/ SyncNext \/ MainNext

RouteNext == RequestNext \/ BgNext \/ WorkerNext

\* The request thread and the background thread keep being scheduled.
RouteSpec ==
  RouteInit /\ [][RouteNext]_vars /\ WF_vars(RequestNext) /\ WF_vars(BgNext)

\* ------------------------------------------------- emits that raise

\* What socketio.emit raises when the server cannot send.
EmitFailed == "emit failed"

\* The positions of the request thread whose next statement is a
\* _send_progress inside the try of line 48.
MainPublishing == {"start", "check", "saved", "record", "created", "announce"}

\* Lines 38 and 296: the emit to the room raises on the request thread;
\* _send_progress has no handler, the one of process_upload_async takes it.
EmitRaises ==
  /\ pcMain \in MainPublishing
  /\ e' = EmitFailed
  /\ delivered' = <<>>
  /\ pcMain' = "except"
  /\ UNCHANGED <<fileVars, outerVars, idVars, pcBg, call_id, file_path,
                 original_filename, storeVars, sttVars, llmVars, guardVars,
                 resultVars, bgLocals, lastEvent, evParity, nTerminal,
                 upload_complete>>

\* Lines 301 and 321: the emit raises inside the handler of
\* process_upload_async, which so ends with the exception, before its cleanup
\* when it was the emit of the 'error' event.
EmitRaisesInHandler ==
  /\ pcMain \in {"except", "notify"}
  /\ delivered' = <<>>
  /\ pcMain' = "raised"
  /\ UNCHANGED <<fileVars, outerVars, idVars, pcBg, mainLocals, storeVars,
                 sttVars, llmVars, guardVars, resultVars, bgLocals, lastEvent,
                 evParity, nTerminal, upload_complete>>

\* Lines 104, 135-145 and 160: the emit raises inside the try of the
\* transcription stage and is caught at line 161 like a failed transcription.
EmitRaisesTranscribing ==
  /\ \/ pcBg \in {"begin", "stt_done"}
     \/ /\ pcBg = "guard_stt"
        /\ transcribe_thread = "alive"
        /\ elapsed <= 2 * timeout_seconds
        /\ TickDue(elapsed, last_update)
  /\ e_stt' = EmitFailed
  /\ delivered' = <<>>
  /\ pcBg' = "failed"
  /\ UNCHANGED <<fileVars, outerVars, idVars, pcMain, mainLocals, storeVars,
                 sttVars, llmVars, guardVars, resultVars,
                 transcript_for_analysis, llm_error, call_record, lastEvent,
                 evParity, nTerminal, upload_complete>>

\* Lines 203-209: the emit of a tick raises inside the try of the analysis
\* stage and is caught at line 247 like a failed analysis.
EmitRaisesAnalyzing ==
  /\ pcBg = "guard_llm"
  /\ analyze_thread = "alive"
  /\ elapsed <= 2 * timeout_llm
  /\ TickDue(elapsed, last_update)
  /\ llm_error' = EmitFailed
  /\ delivered' = <<>>
  /\ pcBg' = "fallback"
  /\ UNCHANGED <<fileVars, outerVars, idVars, pcMain, mainLocals, storeVars,
                 sttVars, llmVars, guardVars, resultVars, e_stt,
                 transcript_for_analysis, call_record, lastEvent, evParity,
                 nTerminal, upload_complete>>

\* Lines 163, 167, 257, 260, 277 and 286: the emit raises where no try of
\* transcription_progress encloses it, and ends the thread.
EmitRaisesUnhandled ==
  /\ pcBg \in {"failed", "announce_llm", "analysis_done", "saving", "complete",
               "notify"}
  /\ delivered' = <<>>
  /\ pcBg' = "dead"
  /\ UNCHANGED <<fileVars, outerVars, idVars, pcMain, mainLocals, storeVars,
                 sttVars, llmVars, guardVars, resultVars, bgLocals, lastEvent,
                 evParity, nTerminal, upload_complete>>

EmitNext ==
  \/ EmitRaises \/ EmitRaisesInHandler
  \/ EmitRaisesTranscribing \/ EmitRaisesAnalyzing \/ EmitRaisesUnhandled

\* One submission whose emits may raise.
EmitSpec == SmallInit /\ [][Next \/ EmitNext]_vars

\* ------------------------- another submission, running process_upload_async

\* What the other submission never touches: all but the two stores and the
\* two generators of identifiers.
notOther ==
  <<fileVars, response, ctrlVars, svcVars, pcMain, pcBg, mainLocals, sttVars, llmVars, guardVars,
    resultVars, bgLocals, eventVars, upload_complete>>

\* Lines 76-86 of the other submission: its file, named a.wav too, is saved
\* under a name of its own.
OtherSaves ==
  /\ other.pc = "idle"
  /\ last_uuid' = last_uuid + 1
  /\ other' = [other EXCEPT !.pc = "saved",
                 !.file_path = [uuid |-> last_uuid',
                                ext |-> splitext(<<"a", ".", "w", "a", "v">>)]]
  /\ files' = files \cup {other'.file_path}
  /\ UNCHANGED <<notOther, last_object_id, calls>>

\* Lines 91-94 of the other submission.
OtherCreates ==
  /\ other.pc = "saved"
  /\ last_object_id' = last_object_id + 1
  /\ other' = [other EXCEPT !.pc = "created", !.call_id = last_object_id']
  /\ calls' = calls @@ (other'.call_id :>
                          NewCallDoc(<<"a", ".", "w", "a", "v">>, other.file_path))
  /\ UNCHANGED <<notOther, last_uuid, files>>

\* Lines 262-272 of the other submission.
OtherUpdates ==
  /\ other.pc = "created"
  /\ other' = [other EXCEPT !.pc = "updated"]
  /\ calls' = UpdatedCalls(calls, other.call_id, Word("another call"),
                           Word("Test summary"), PyList(<<Word("test-tag")>>),
                           PyDict(<<>>), PyList(<<>>), Word("unknown"),
                           Word("neutral"), PyList(<<>>))
  /\ UNCHANGED <<notOther, idVars, files>>

\* Lines 304-313 of the other submission, which failed after it saved its file.
OtherCleansUp ==
  /\ other.pc \in {"saved", "created"}
  /\ other' = [other EXCEPT !.pc = "gone"]
  /\ calls' = IF other.call_id # 0 THEN DeletedCalls(calls, other.call_id) ELSE calls
  /\ files' = files \ {other.file_path}
  /\ UNCHANGED <<notOther, idVars>>

OtherNext == OtherSaves \/ OtherCreates \/ OtherUpdates \/ OtherCleansUp

\* Two submissions that run at the same time on the same upload folder and
\* the same calls collection.
SharedSpec == SmallInit /\ [][Next \/ OtherNext]_vars

\* ------------------------------------ llm_service.LLMService.analyze_transcript

\* The text of the model's answer is a sequence of tokens: a punctuation
\* mark, a string literal (s is what the quotes hold) or a bare word.
Tok(k, s) == [k |-> k, s |-> s]

Mark(s) == Tok("p", s)

Lit(s) == Tok("s", s)

Bare(s) == Tok("w", s)

\* The fence of a code block, three backticks.
Fence == Mark("fence")

\* What message.content may be: the object asked for, bare and in a code
\* block with and without the word json; an object whose tags are a string;
\* an array, a string and null, which are JSON and no object; prose; an
\* object that was cut off; an object with text behind it; nothing.
LlmContents ==
  LET object == << Mark("{"), Lit("summary"), Mark(":"), Lit("short call"),
                   Mark(","), Lit("tags"), Mark(":"),
                   Mark("["), Lit("inquiry"), Mark("]"), Mark("}") >>
  IN { object,
       <<Fence, Bare("json")>> \o object \o <<Fence>>,
       <<Fence>> \o object \o <<Fence>>,
       << Mark("{"), Lit("tags"), Mark(":"), Lit("complaint"), Mark("}") >>,
       << Mark("["), Lit("inquiry"), Mark("]") >>,
       << Lit("voicemail") >>,
       << Bare("null") >>,
       << Bare("Sorry"), Mark(","), Bare("no"), Bare("transcript") >>,
       << Mark("{"), Lit("summary"), Mark(":"), Lit("angry caller"), Mark(","),
          Lit("tags"), Mark(":"), Mark("["), Lit("complaint") >>,
       object \o << Bare("Done") >>,
       <<>> }

\* The transcripts analyze_transcript is given.
LlmTranscripts == Texts

\* What a parse that fails returns.
NoParse == [ok |-> FALSE, val |-> PyNone, next |-> 0]

RECURSIVE ParseValue(_, _), ParseElements(_, _, _), ParseMembers(_, _, _)
\* json.loads, the value that starts at token i: a string, null, an array or
\* an object; next is the token after it.
ParseValue(toks, i) ==
  IF i > Len(toks) THEN NoParse
  ELSE IF toks[i].k = "s"
       THEN [ok |-> TRUE, val |-> Word(toks[i].s), next |-> i + 1]
  ELSE IF toks[i] = Bare("null")
       THEN [ok |-> TRUE, val |-> PyNone, next |-> i + 1]
  ELSE IF toks[i] = Mark("[")
       THEN IF i + 1 <= Len(toks) /\ toks[i + 1] = Mark("]")
            THEN [ok |-> TRUE, val |-> PyList(<<>>), next |-> i + 2]
            ELSE ParseElements(toks, i + 1, <<>>)
  ELSE IF toks[i] = Mark("{")
       THEN IF i + 1 <= Len(toks) /\ toks[i + 1] = Mark("}")
            THEN [ok |-> TRUE, val |-> PyDict(<<>>), next |-> i + 2]
            ELSE ParseMembers(toks, i + 1, <<>>)
  ELSE NoParse

\* The elements of an array from token i on, acc the ones before.
ParseElements(toks, i, acc) ==
  LET v == ParseValue(toks, i)
  IN IF ~v.ok \/ v.next > Len(toks) THEN NoParse
     ELSE IF toks[v.next] = Mark(",")
          THEN ParseElements(toks, v.next + 1, Append(acc, v.val))
     ELSE IF toks[v.next] = Mark("]")
          THEN [ok |-> TRUE, val |-> PyList(Append(acc, v.val)), next |-> v.next + 1]
     ELSE NoParse

\* The members of an object from token i on, acc the ones before; a key
\* that comes again replaces the one before.
ParseMembers(toks, i, acc) ==
  IF i + 1 > Len(toks) \/ toks[i].k # "s" \/ toks[i + 1] # Mark(":")
  THEN NoParse
  ELSE LET v == ParseValue(toks, i + 2)
           members == (toks[i].s :> v.val) @@ acc
       IN IF ~v.ok \/ v.next > Len(toks) THEN NoParse
          ELSE IF toks[v.next] = Mark(",")
               THEN ParseMembers(toks, v.next + 1, members)
          ELSE IF toks[v.next] = Mark("}")
               THEN [ok |-> TRUE, val |-> PyDict(members), next |-> v.next + 1]
          ELSE NoParse

\* json.loads(text): the value when the whole text is one, JSONDecodeError
\* (ok is FALSE) when not.
json_loads(toks) ==
  LET v == ParseValue(toks, 1)
  IN IF v.ok /\ v.next = Len(toks) + 1 THEN v ELSE NoParse

\* Lines 91-95: of a text that starts with a code fence, what stands between
\* it and the next fence, without the word json in front.
Unfenced(toks) ==
  IF toks # <<>> /\ toks[1] = Fence
  THEN LET rest == Tail(toks)
           fences == {i \in DOMAIN rest : rest[i] = Fence}
           inner == IF fences = {} THEN rest
                    ELSE SubSeq(rest, 1, (CHOOSE i \in fences : \A j \in fences : i <= j) - 1)
       IN IF inner # <<>> /\ inner[1] = Bare("json") THEN Tail(inner) ELSE inner
  ELSE toks

\* Line 152.
tag_keywords ==
  <<"client wants to buy", "wrong number", "needs follow-up", "voicemail",
    "complaint", "inquiry", "sale", "support">>

RECURSIVE StripMarks(_)
\* str.strip of colon, comma and quote, on tokens: the colons and commas at
\* both ends go.
StripMarks(toks) ==
  IF toks # <<>> /\ toks[1] \in {Mark(":"), Mark(",")} THEN StripMarks(Tail(toks))
  ELSE IF toks # <<>> /\ toks[Len(toks)] \in {Mark(":"), Mark(",")}
       THEN StripMarks(SubSeq(toks, 1, Len(toks) - 1))
  ELSE toks

\* Lines 145-168, _fallback_parse: the summary is what stands between the
\* last 'summary' and the next 'tags', the tags are the keywords the text
\* has, 'other' when it has none.
fallback_parse(toks) ==
  LET has(word) == \E i \in DOMAIN toks : toks[i].s = word
      last == CHOOSE i \in DOMAIN toks :
                /\ toks[i].s = "summary"
                /\ \A j \in DOMAIN toks : toks[j].s = "summary" => j <= i
      after == SubSeq(toks, last + 1, Len(toks))
      ends == {i \in DOMAIN after : after[i].s = "tags"}
      upto == IF ends = {} THEN after
              ELSE SubSeq(after, 1, (CHOOSE i \in ends : \A j \in ends : i <= j) - 1)
      words == StripMarks(upto)
      found == SelectSeq(tag_keywords, has)
  IN PyDict([summary |-> IF has("summary")
                         THEN PyStr([i \in DOMAIN words |-> words[i].s])
                         ELSE Word("Unable to parse summary."),
             tags |-> IF found = <<>> THEN PyList(<<Word("other")>>)
                      ELSE PyList([i \in DOMAIN found |-> Word(found[i])]),
             roles |-> PyDict(<<>>), emotions |-> PyList(<<>>),
             intent |-> Word("unknown"), mood |-> Word("neutral"),
             insights |-> PyList(<<>>)])

\* Lines 133-143: what analyze_transcript returns when anything but the
\* parse raised.
ErrorResult(error) ==
  PyDict([summary |-> PyStr(<<"Error analyzing transcript: ", error>>),
          tags |-> PyList(<<Word("analysis-error")>>),
          roles |-> PyDict(<<>>), emotions |-> PyList(<<>>),
          intent |-> Word("unknown"), mood |-> Word("neutral"),
          insights |-> PyList(<<>>)])

\* Lines 100-126: the fields of the parsed object, each with its default.
Extracted(result) ==
  PyDict([summary |-> Get(result, "summary", Word("Unable to generate summary.")),
          tags |-> AsList(Get(result, "tags", PyList(<<>>))),
          roles |-> AsDict(Get(result, "roles", PyDict(<<>>))),
          emotions |-> AsList(Get(result, "emotions", PyList(<<>>))),
          intent |-> Get(result, "intent", Word("unknown")),
          mood |-> Get(result, "mood", Word("neutral")),
          insights |-> AsList(Get(result, "insights", PyList(<<>>)))])

\* Lines 85-143, from the text of the answer on: the fields of the object it
\* is; the fallback parse when it is no JSON; the error result when it is
\* JSON and no object, for which result.get raises.
Parsed(toks) ==
  LET text == Unfenced(toks)
      parsed == json_loads(text)
  IN IF ~parsed.ok THEN [raised |-> "", result |-> fallback_parse(text)]
     ELSE IF parsed.val.ty # "dict"
          THEN [raised |-> "", result |-> ErrorResult("object has no attribute 'get'")]
     ELSE [raised |-> "", result |-> Extracted(parsed.val)]

\* What analyze_transcript never touches.
notLlm ==
  <<fileVars, response, other, ctrlVars, stt, auth, idVars, pcMain, pcBg, mainLocals,
    storeVars, sttVars, llmVars, guardVars, resultVars, bgLocals, eventVars,
    upload_complete>>

\* Lines 37-68: analyze_transcript(transcript) is called; no transcript is
\* answered at once, any other goes into the prompt, its first 1000
\* characters.
AnalyzeTranscript ==
  /\ llm.pc = "idle"
  /\ \E t \in LlmTranscripts :
       IF t = <<>> \/ IsBlank(t)
       THEN llm' = [llm EXCEPT
                      !.pc = "returned", !.transcript = t,
                      !.result =
                        PyDict([summary |-> Word("No transcript available."),
                                tags |-> PyList(<<Word("no-transcript")>>),
                                roles |-> PyDict(<<>>), emotions |-> PyList(<<>>),
                                intent |-> Word("unknown"),
                                mood |-> Word("neutral"),
                                insights |-> PyList(<<>>)])]
       ELSE llm' = [llm EXCEPT
                      !.pc = "request", !.transcript = t,
                      !.prompt = SubSeq(t, 1, Min(Len(t), 1000))]
  /\ UNCHANGED notLlm

\* Lines 73-143, the request raises (no connection, a timeout, an answer
\* with no content): the error result is returned.
RequestRaises ==
  /\ llm.pc = "request"
  /\ llm' = [llm EXCEPT !.pc = "returned", !.api = "raised",
                        !.result = ErrorResult("Request timed out.")]
  /\ UNCHANGED notLlm

\* Lines 73-131, the model answers: its text is parsed and the result
\* returned.
RequestAnswered ==
  /\ llm.pc = "request"
  /\ \E content \in LlmContents :
       llm' = [llm EXCEPT !.pc = IF Parsed(content).raised = "" THEN "returned"
                                 ELSE "raised",
                          !.api = "answered",
                          !.content = content,
                          !.raised = Parsed(content).raised,
                          !.result = Parsed(content).result]
  /\ UNCHANGED notLlm

LlmNext == AnalyzeTranscript \/ RequestRaises \/ RequestAnswered

\* -------------------------------------------- stt_service.STTService.transcribe

\* What the engine may return as result["text"].
EngineTexts == Texts \cup { <<" ", "hello world", " ">> }

RECURSIVE Strip(_)
\* str.strip(), on a sequence of characters and words.
Strip(s) ==
  IF s # <<>> /\ Head(s) = " " THEN Strip(Tail(s))
  ELSE IF s # <<>> /\ s[Len(s)] = " " THEN Strip(SubSeq(s, 1, Len(s) - 1))
  ELSE s

\* What transcribe never touches; audio_path is file_path.
notStt ==
  <<fileVars, response, other, body, request, query, llm, auth, idVars, pcMain, pcBg,
    mainLocals, calls, sttVars, llmVars, guardVars, resultVars, bgLocals,
    eventVars, upload_complete>>

\* Lines 113-114: transcribe(audio_path) is called; a path with no file
\* raises FileNotFoundError.
Transcribe ==
  /\ stt.pc = "idle"
  /\ called' = called \o <<"exists">>
  /\ stt' = IF file_path \in files
            THEN [stt EXCEPT !.pc = "preprocess"]
            ELSE [stt EXCEPT !.pc = "raised", !.raised = "FileNotFoundError"]
  /\ UNCHANGED <<notStt, files>>

\* Lines 36-100 and 120-121, _preprocess_audio: a file under 5 MB is used as
\* it is; a larger one is converted to a file of its own, and is used as it
\* is when the conversion fails, runs out of time or leaves an empty file.
PreprocessAudio ==
  /\ stt.pc = "preprocess"
  /\ called' = called \o <<"_preprocess_audio">>
  /\ IF file_size < 5 * 1024 * 1024
     THEN stt' = [stt EXCEPT !.pc = "engine", !.processed_audio = "original"]
     ELSE \E converted \in BOOLEAN, left \in BOOLEAN :
            stt' = [stt EXCEPT !.pc = "engine",
                               !.processed_audio = IF converted THEN "preprocessed"
                                                   ELSE "original",
                               !.temp_file = converted \/ left]
  /\ UNCHANGED <<notStt, files>>

\* Mutant of EngineRaises: the failure of the engine is swallowed and no text
\* returned.
EngineRaises_ReturnsNoText ==
  /\ stt.pc = "engine"
  /\ called' = called \o <<"model.transcribe">>
  /\ stt' = [stt EXCEPT !.pc = "returned", !.engine = "raised",
                        !.temp_file = @ /\ stt.processed_audio # "preprocessed"]
  /\ UNCHANGED <<notStt, files>>

\* Lines 123-155, model.transcribe raises: the converted file is removed, the
\* exception is raised again.
EngineRaises ==
  /\ stt.pc = "engine"
  /\ called' = called \o <<"model.transcribe">>
  /\ stt' = [stt EXCEPT !.pc = "raised", !.engine = "raised",
                        !.raised = "engine failure",
                        !.temp_file = @ /\ stt.processed_audio # "preprocessed"]
  /\ UNCHANGED <<notStt, files>>

\* Lines 123-152, model.transcribe returns: its text, stripped, is returned
\* and the converted file removed.
EngineReturns ==
  /\ stt.pc = "engine"
  /\ called' = called \o <<"model.transcribe">>
  /\ \E t \in EngineTexts :
       stt' = [stt EXCEPT !.pc = "returned", !.engine = "returned",
                          !.text = Strip(t),
                          !.temp_file = @ /\ stt.processed_audio # "preprocessed"]
  /\ UNCHANGED <<notStt, files>>

SttNext == Transcribe \/ PreprocessAudio \/ EngineRaises \/ EngineReturns

\* ------------------------------------------------- the two services, called

\* transcribe is called with a path that has a file, small or large, or has
\* none; analyze_transcript is called with a transcript.
ServiceInit ==
  /\ filename = <<"a", ".", "w", "a", "v">>
  /\ file_size \in {50, max_size}
  /\ has_file = TRUE
  /\ session_id = ""
  /\ pcMain = "service"
  /\ \E saved \in BOOLEAN :
       LET path == [uuid |-> 1, ext |-> <<".", "w", "a", "v">>]
       IN /\ response = 0 /\ other = NoOther /\ body = NoBody /\ called = <<>>
          /\ request = NoRequest /\ query = NoQuery /\ stt = NoStt /\ llm = NoLlm
          /\ auth = NoAuth
          /\ last_object_id = 0 /\ last_uuid = 1
          /\ pcBg = "unstarted" /\ call_id = 0
          /\ file_path = path
          /\ original_filename = filename /\ e = ""
          /\ files = IF saved THEN {path} ELSE {}
          /\ calls = <<>>
          /\ transcribe_thread = "unstarted" /\ transcript = Unbound
          /\ transcription_error = "" /\ e_stt = ""
          /\ elapsed = 0 /\ last_update = 0
          /\ transcript_for_analysis = Unbound
          /\ analyze_thread = "unstarted" /\ analysis = Unbound
          /\ analysis_error = "" /\ llm_error = ""
          /\ summary = Unbound /\ tags = Unbound /\ roles = Unbound
          /\ emotions = Unbound /\ intent = Unbound /\ mood = Unbound
          /\ insights = Unbound /\ call_record = Unbound
          /\ lastEvent = NoEvent /\ evParity = 0 /\ nTerminal = 0
          /\ delivered = <<>> /\ upload_complete = <<>>

ServiceNext == SttNext \/ LlmNext

ServiceSpec == ServiceInit /\ [][ServiceNext]_vars

\* ------------------- calls_controller: get_one, delete_one and get_all

\* The ids a request may name: none, blanks, the ids of records that are or
\* may have been in the store, an id with a blank in front and one that is
\* no ObjectId.
CallIds ==
  { <<>>, <<" ", " ">>, <<"1">>, <<"2">>, <<"3">>, <<" ", "1">>, <<"x">> }

Absent == PyNone

\* The values the limit parameter may have.
LimitParams ==
  { Absent, PyStr(<<>>), PyStr(<<"a", "b", "c">>), PyStr(<<"0">>),
    PyStr(<<"1">>), PyStr(<<"1", "0", "0", "0">>), PyStr(<<"1", "0", "0", "1">>),
    PyStr(<<"-", "5">>), PyStr(<<" ", "7", " ">>), PyStr(<<"1", ".", "5">>) }

\* The values the skip parameter may have.
SkipParams ==
  { Absent, PyStr(<<"a", "b", "c">>), PyStr(<<"0">>), PyStr(<<"1">>),
    PyStr(<<"-", "1">>), PyStr(<<"1", ".", "5">>) }

\* The values the tag parameter may have.
TagParams == { Absent, Word("inquiry") }

DigitChars == <<"0", "1", "2", "3", "4", "5", "6", "7", "8", "9">>

RECURSIVE Number(_)
\* The number a sequence of digits writes.
Number(ds) ==
  IF ds = <<>> THEN 0
  ELSE Number(SubSeq(ds, 1, Len(ds) - 1)) * 10
       + (CHOOSE i \in 1..10 : DigitChars[i] = ds[Len(ds)]) - 1

\* int(s) for a string: blanks at both ends go, a sign may lead, digits
\* follow and nothing else; ok is FALSE for ValueError.
IntOf(s) ==
  LET stripped == Strip(s)
      signed == stripped # <<>> /\ stripped[1] \in {"+", "-"}
      ds == IF signed THEN Tail(stripped) ELSE stripped
      digits == {DigitChars[i] : i \in 1..10}
  IN IF ds = <<>> \/ \E i \in DOMAIN ds : ds[i] \notin digits
     THEN [ok |-> FALSE, n |-> 0]
     ELSE [ok |-> TRUE,
           n |-> IF signed /\ stripped[1] = "-" THEN 0 - Number(ds) ELSE Number(ds)]

\* Mutant of ParsedLimit: the limit is used as it was parsed.
ParsedLimit_AnyInteger(p) ==
  IF p.ty = "None" THEN 100
  ELSE IF ~IntOf(p.v).ok THEN 100
  ELSE IntOf(p.v).n

\* Lines 272-277: the limit get_all uses.
ParsedLimit(p) ==
  IF p.ty = "None" THEN 100
  ELSE IF ~IntOf(p.v).ok THEN 100
  ELSE IF IntOf(p.v).n < 1 \/ IntOf(p.v).n > 1000 THEN 100
  ELSE IntOf(p.v).n

\* Lines 280-285: the skip get_all uses.
ParsedSkip(p) ==
  IF p.ty = "None" THEN 0
  ELSE IF ~IntOf(p.v).ok THEN 0
  ELSE IF IntOf(p.v).n < 0 THEN 0
  ELSE IntOf(p.v).n

\* ObjectId(call_id): the id the string writes, 0 for InvalidId.
ObjectIdOf(s) ==
  IF s # <<>> /\ IntOf(s).ok /\ IntOf(s).n > 0 /\ Digits(IntOf(s).n) = s
  THEN IntOf(s).n
  ELSE 0

RECURSIVE Descending(_)
\* A set of ids, the newest first.
Descending(ids) ==
  IF ids = {} THEN <<>>
  ELSE LET newest == CHOOSE i \in ids : \A j \in ids : j <= i
       IN <<newest>> \o Descending(ids \ {newest})

\* database_service.get_all_calls, lines 328-363, with no date filter: the
\* records that have the tag, the newest first, after skip of them, limit of
\* them at most.
GetAllCalls(db, tag, limit, skip) ==
  LET has(i) == \E k \in DOMAIN db[i].tags.v : db[i].tags.v[k] = tag
      ids == {i \in DOMAIN db : ~Truthy(tag) \/ has(i)}
      sorted == Descending(ids)
      rest == SubSeq(sorted, skip + 1, Len(sorted))
      page == SubSeq(rest, 1, Min(limit, Len(rest)))
  IN PyList([k \in DOMAIN page |-> PyDict(db[page[k]])])

\* What the three operations never touch.
notApi ==
  <<fileVars, other, svcVars, idVars, pcBg, mainLocals, sttVars, llmVars,
    guardVars, resultVars, bgLocals, eventVars, upload_complete>>

\* A request arrives: GET /api/calls/<call_id>, DELETE /api/calls/<call_id>
\* or GET /api/calls with its parameters.
NewRequest ==
  /\ pcMain \in {"waiting", "answered"}
  /\ request.n < MaxRequests
  /\ \E op \in {"get_one", "delete_one", "get_all"} :
       /\ pcMain' = op
       /\ IF op = "get_all"
          THEN \E tag \in TagParams, limit \in LimitParams, skip \in SkipParams :
                 request' = [op |-> op, n |-> request.n + 1, call_id |-> <<>>,
                             tag |-> tag, limit |-> limit, skip |-> skip]
          ELSE \E id \in CallIds :
                 request' = [op |-> op, n |-> request.n + 1, call_id |-> id,
                             tag |-> Absent, limit |-> Absent, skip |-> Absent]
  /\ response' = 0
  /\ body' = NoBody
  /\ called' = <<>>
  /\ query' = NoQuery
  /\ UNCHANGED <<notApi, storeVars>>

\* get_one, lines 313-330: 400 for no id; else what get_call_by_id returns,
\* with 200, or 404 when it returns None, which it does when there is no
\* such record, when the id is no ObjectId and when the read fails
\* (database_service lines 286-311).
GetOne ==
  /\ pcMain = "get_one"
  /\ IF request.call_id = <<>> \/ IsBlank(request.call_id)
     THEN /\ response' = 400
          /\ body' = Failure(<<"Invalid call ID">>)
          /\ called' = called
     ELSE \E read \in BOOLEAN :
            LET call == IF read THEN GetCallById(calls, ObjectIdOf(request.call_id))
                        ELSE PyNone
            IN /\ called' = called \o <<"get_call_by_id">>
               /\ IF Truthy(call)
                  THEN /\ response' = 200
                       /\ body' = PyDict([success |-> PyBool(TRUE), data |-> call])
                  ELSE /\ response' = 404
                       /\ body' = Failure(<<"Call record ", "not found",
                                            " with ID: ">> \o request.call_id)
  /\ pcMain' = "answered"
  /\ UNCHANGED <<notApi, storeVars, request, query>>

\* Mutant of DeleteOne: delete_call is called whatever the lookup returned.
DeleteOne_DeletesUnseen ==
  /\ pcMain = "delete_one"
  /\ LET id == ObjectIdOf(request.call_id)
     IN /\ called' = called \o <<"get_call_by_id", "delete_call">>
        /\ calls' = IF id \in DOMAIN calls THEN DeletedCalls(calls, id) ELSE calls
        /\ IF id \in DOMAIN calls
           THEN /\ response' = 200
                /\ body' = PyDict([success |-> PyBool(TRUE),
                                   message |-> Word("Call record deleted")])
           ELSE /\ response' = 404
                /\ body' = Failure(<<"Call record not found">>)
  /\ pcMain' = "answered"
  /\ UNCHANGED <<notApi, files, request, query>>

\* delete_one, lines 472-501: 404 when get_call_by_id returns None; else
\* the audio file is removed if it is there, which may fail, and the record
\* deleted: 200, or 500 when delete_call returns False.
DeleteOne ==
  /\ pcMain = "delete_one"
  /\ \E read \in BOOLEAN, removed \in BOOLEAN, deleted \in BOOLEAN :
       LET id == ObjectIdOf(request.call_id)
           call == IF read THEN GetCallById(calls, id) ELSE PyNone
       IN IF ~Truthy(call)
          THEN /\ called' = called \o <<"get_call_by_id">>
               /\ response' = 404
               /\ body' = Failure(<<"Call record not found">>)
               /\ UNCHANGED storeVars
          ELSE LET audio_path == call.v.audio_file_path
                   there == audio_path # NoPath /\ audio_path \in files
               IN /\ called' = called \o <<"get_call_by_id">>
                                 \o (IF there THEN <<"remove">> ELSE <<>>)
                                 \o <<"delete_call">>
                  /\ files' = IF there /\ removed THEN files \ {audio_path}
                              ELSE files
                  /\ calls' = IF deleted THEN DeletedCalls(calls, id) ELSE calls
                  /\ IF deleted
                     THEN /\ response' = 200
                          /\ body' = PyDict([success |-> PyBool(TRUE),
                                             message |-> Word("Call record deleted")])
                     ELSE /\ response' = 500
                          /\ body' = Failure(<<"Failed to delete call record">>)
  /\ pcMain' = "answered"
  /\ UNCHANGED <<notApi, request, query>>

\* get_all, lines 250-309, with no date filter: limit and skip are parsed,
\* get_all_calls is called with them and what it returns is answered with
\* 200; when it raises, 500.
GetAll ==
  /\ pcMain = "get_all"
  /\ LET limit == ParsedLimit(request.limit)
         skip == ParsedSkip(request.skip)
     IN /\ query' = [limit |-> limit, skip |-> skip]
        /\ called' = called \o <<"get_all_calls">>
        /\ \E raised \in BOOLEAN :
             IF raised
             THEN /\ response' = 500
                  /\ body' = Failure(<<"Failed to retrieve calls: ", "store error">>)
             ELSE LET found == GetAllCalls(calls, request.tag, limit, skip)
                  IN /\ response' = 200
                     /\ body' = PyDict([success |-> PyBool(TRUE), data |-> found,
                                        count |-> PyInt(Len(found.v)),
                                        limit |-> PyInt(limit),
                                        skip |-> PyInt(skip)])
  /\ pcMain' = "answered"
  /\ UNCHANGED <<notApi, storeVars, request>>

ApiNext == NewRequest \/ GetOne \/ DeleteOne \/ GetAll

\* The store the requests find: empty, or with the records of one or two
\* uploads of a.wav, the first as it was created or with its analysis, each
\* with its file.
ApiInit ==
  /\ filename = <<>>
  /\ file_size = 0
  /\ has_file = FALSE
  /\ session_id = ""
  /\ pcMain = "waiting"
  /\ \E n \in 0..2, analysed \in BOOLEAN :
       LET name == <<"a", ".", "w", "a", "v">>
           path(i) == [uuid |-> i, ext |-> splitext(name)]
           created == [i \in 1..n |-> NewCallDoc(name, path(i))]
       IN /\ last_object_id = n
          /\ last_uuid = n
          /\ files = {path(i) : i \in 1..n}
          /\ calls = IF analysed
                     THEN UpdatedCalls(created, 1, Word("hello world"),
                                       Word("short call"),
                                       PyList(<<Word("inquiry")>>), PyDict(<<>>),
                                       PyList(<<>>), Word("information"),
                                       Word("neutral"), PyList(<<>>))
                     ELSE created
  /\ response = 0 /\ other = NoOther /\ body = NoBody /\ called = <<>>
  /\ request = NoRequest /\ query = NoQuery /\ stt = NoStt /\ llm = NoLlm
  /\ auth = NoAuth
  /\ pcBg = "unstarted" /\ call_id = 0 /\ file_path = NoPath
  /\ original_filename = <<>> /\ e = ""
  /\ transcribe_thread = "unstarted" /\ transcript = Unbound
  /\ transcription_error = "" /\ e_stt = ""
  /\ elapsed = 0 /\ last_update = 0
  /\ transcript_for_analysis = Unbound
  /\ analyze_thread = "unstarted" /\ analysis = Unbound
  /\ analysis_error = "" /\ llm_error = ""
  /\ summary = Unbound /\ tags = Unbound /\ roles = Unbound
  /\ emotions = Unbound /\ intent = Unbound /\ mood = Unbound
  /\ insights = Unbound /\ call_record = Unbound
  /\ lastEvent = NoEvent /\ evParity = 0 /\ nTerminal = 0
  /\ delivered = <<>> /\ upload_complete = <<>>

ApiSpec == ApiInit /\ [][ApiNext]_vars

\* ----------------------------------------- a cleanup whose steps fail

\* Lines 304-313 when delete_call raises or returns False (database_service
\* lines 365-371), or os.remove raises, or both: the failure is swallowed
\* and what was to be deleted stays.
CleanupFails ==
  /\ pcMain = "cleanup"
  /\ \E deleted \in BOOLEAN, removed \in BOOLEAN :
       /\ ~(deleted /\ removed)
       /\ calls' = IF call_id # 0 /\ deleted THEN DeletedCalls(calls, call_id)
                   ELSE calls
       /\ files' = IF file_path # NoPath /\ removed THEN files \ {file_path}
                   ELSE files
  /\ pcMain' = "notify"
  /\ UNCHANGED <<fileVars, outerVars, idVars, pcBg, mainLocals, sttVars, llmVars, guardVars,
                 resultVars, bgLocals, eventVars, upload_complete>>

\* A submission whose cleanup may fail.
CleanupSpec == Init /\ [][Next \/ CleanupFails]_vars

\* ------------------------------------- calls_controller: update_tags

\* What request.get_json() may give: nothing, a mapping with no tags, with
\* tags that are no list, with a list of tags, with the empty list.
TagsData ==
  { PyNone, PyDict([note |-> Word("x")]), PyDict([tags |-> Word("vip")]),
    PyDict([tags |-> PyList(<<Word("vip")>>)]), PyDict([tags |-> PyList(<<>>)]) }

\* The collection after update_call_record(id, tags_override=to), lines
\* 252-256 of database_service, when update_one succeeds.
OverriddenCalls(db, id, to) ==
  IF id \notin DOMAIN db THEN db
  ELSE [db EXCEPT ![id] = [@ EXCEPT !.tags_override = to, !.tags = to]]

\* update_tags, lines 416-468, called at any moment of a submission: 400
\* for a body with no list of tags, 404 when get_call_by_id returns None;
\* else update_call_record with the override alone, 200 with the record as
\* it is read after it, 500 when update_call_record returns False.
UpdateTags ==
  /\ request.n < MaxOverrides
  /\ \E id \in {<<"1">>, <<"2">>}, data \in TagsData :
       LET tags_override == IF data.ty = "dict" THEN Get(data, "tags", PyNone)
                            ELSE PyNone
       IN /\ request' = [op |-> "update_tags", n |-> request.n + 1,
                         call_id |-> id, data |-> data]
          /\ IF ~Truthy(data)
             THEN /\ response' = 400
                  /\ body' = Failure(<<"No data provided">>)
                  /\ UNCHANGED <<called, calls>>
             ELSE IF tags_override.ty = "None"
             THEN /\ response' = 400
                  /\ body' = Failure(<<"Tags field is required">>)
                  /\ UNCHANGED <<called, calls>>
             ELSE IF tags_override.ty # "list"
             THEN /\ response' = 400
                  /\ body' = Failure(<<"Tags must be a list">>)
                  /\ UNCHANGED <<called, calls>>
             ELSE \E read \in BOOLEAN, stored \in BOOLEAN, again \in BOOLEAN :
                    LET oid == ObjectIdOf(id)
                        call == IF read THEN GetCallById(calls, oid) ELSE PyNone
                    IN IF ~Truthy(call)
                       THEN /\ response' = 404
                            /\ body' = Failure(<<"Call record not found">>)
                            /\ called' = called \o <<"get_call_by_id">>
                            /\ calls' = calls
                       ELSE IF ~stored
                       THEN /\ response' = 500
                            /\ body' = Failure(<<"Failed to update tags">>)
                            /\ called' = called \o <<"get_call_by_id",
                                                     "update_call_record">>
                            /\ calls' = calls
                       ELSE /\ calls' = OverriddenCalls(calls, oid, tags_override)
                            /\ response' = 200
                            /\ body' = PyDict([success |-> PyBool(TRUE),
                                    data |-> IF again THEN GetCallById(calls', oid)
                                             ELSE PyNone,
                                    message |-> Word("Tags updated successfully")])
                            /\ called' = called \o <<"get_call_by_id",
                                    "update_call_record", "get_call_by_id">>
  /\ UNCHANGED <<fileVars, other, query, svcVars, idVars, pcMain, pcBg, mainLocals,
                 files, sttVars, llmVars, guardVars, resultVars, bgLocals,
                 eventVars, upload_complete>>

\* A user overrides tags while the submission of a.wav or a.pdf is handled.
TagsSpec == SmallInit /\ [][Next \/ UpdateTags]_vars

\* ------------------------------------------- auth_service.AuthService

\* The names and addresses the calls use; "a@x" is the address of one user
\* and may be the name of another.
Usernames == {"ana", "a@x"}

\* The password every user is created with, and a wrong one.
Passwords == {"p", "q"}

Emails == {"", "a@x"}

\* _hash_password, line 29: the digest of the password.
HashPassword(password) == <<"sha256", password>>

\* The ids of the users collection.
UserIds == DOMAIN auth.users

\* What the functions leave alone.
notAuth ==
  <<fileVars, response, other, ctrlVars, stt, llm, idVars, pcMain, pcBg,
    mainLocals, storeVars, sttVars, llmVars, guardVars, resultVars, bgLocals,
    eventVars, upload_complete>>

\* The call that has returned.
Returned(op, name, token, user_id, ok) ==
  [op |-> op, name |-> name, token |-> token, user_id |-> user_id, ok |-> ok]

\* create_user, lines 47-65: None when the username is taken or the store
\* raises, else the id of the new, active user.
CreateUser ==
  /\ Len(auth.users) < MaxUsers
  /\ \E username \in Usernames, password \in {"p"}, email \in Emails,
        stored \in BOOLEAN :
       LET existing == \E i \in UserIds : auth.users[i].username = username
           user_doc == [username |-> username,
                        password |-> HashPassword(password),
                        email |-> email, active |-> TRUE]
       IN IF existing \/ ~stored
          THEN auth' = [auth EXCEPT !.last = Returned("create_user", username, 0, 0, FALSE),
                                    !.turn = 1 - @]
          ELSE auth' = [auth EXCEPT !.users = Append(@, user_doc),
                                    !.last = Returned("create_user", username, 0,
                                                      Len(auth.users) + 1, TRUE),
                                    !.turn = 1 - @]
  /\ UNCHANGED notAuth

\* authenticate, lines 78-123: an active user with this username or this
\* email is looked up; None when there is none, when the password's digest
\* is not the stored one or when the store raises; else a new token, good
\* for token_expiry_hours, is stored and returned.
Authenticate ==
  /\ Len(auth.issued) < MaxTokens
  /\ \E username \in Usernames, password \in Passwords, stored \in BOOLEAN :
       LET found == {i \in UserIds :
                      /\ auth.users[i].active
                      /\ \/ auth.users[i].username = username
                         \/ auth.users[i].email = username}
           failed == Returned("authenticate", username, 0, 0, FALSE)
       IN IF found = {}
          THEN auth' = [auth EXCEPT !.last = failed, !.turn = 1 - @]
          ELSE \E user \in found :
                 IF auth.users[user].password # HashPassword(password) \/ ~stored
                 THEN auth' = [auth EXCEPT !.last = failed, !.turn = 1 - @]
                 ELSE LET token == Len(auth.issued) + 1
                          expires_at == auth.now + token_expiry_hours
                      IN auth' = [auth EXCEPT
                           !.tokens = @ \cup {[user_id |-> user, token |-> token,
                                               expires_at |-> expires_at]},
                           !.issued = Append(@, [user_id |-> user, at |-> auth.now]),
                           !.last = Returned("authenticate", username, token, user, TRUE),
                           !.turn = 1 - @]
  /\ UNCHANGED notAuth

\* Mutant of ValidateToken: the expiry of the token is not looked at.
ValidateToken_IgnoresExpiry ==
  /\ \E token \in 0..MaxTokens, read \in BOOLEAN :
       LET docs == {d \in auth.tokens : d.token = token}
           none == Returned("validate_token", "", token, 0, FALSE)
       IN IF docs = {} \/ ~read
          THEN auth' = [auth EXCEPT !.last = none, !.turn = 1 - @]
          ELSE \E token_doc \in docs :
                 IF ~auth.users[token_doc.user_id].active
                 THEN auth' = [auth EXCEPT !.last = none, !.turn = 1 - @]
                 ELSE auth' = [auth EXCEPT
                        !.last = Returned("validate_token",
                                          auth.users[token_doc.user_id].username,
                                          token, token_doc.user_id, TRUE),
                        !.turn = 1 - @]
  /\ UNCHANGED notAuth

\* validate_token, lines 135-162: the token that is stored and has not
\* expired, and its user when active; None when there is none or the store
\* raises.
ValidateToken ==
  /\ \E token \in 0..MaxTokens, read \in BOOLEAN :
       LET docs == {d \in auth.tokens : d.token = token /\ d.expires_at > auth.now}
           none == Returned("validate_token", "", token, 0, FALSE)
       IN IF docs = {} \/ ~read
          THEN auth' = [auth EXCEPT !.last = none, !.turn = 1 - @]
          ELSE \E token_doc \in docs :
                 IF ~auth.users[token_doc.user_id].active
                 THEN auth' = [auth EXCEPT !.last = none, !.turn = 1 - @]
                 ELSE auth' = [auth EXCEPT
                        !.last = Returned("validate_token",
                                          auth.users[token_doc.user_id].username,
                                          token, token_doc.user_id, TRUE),
                        !.turn = 1 - @]
  /\ UNCHANGED notAuth

\* logout, lines 166-171: the token is deleted; True when it was there,
\* False when it was not or the store raises.
Logout ==
  /\ \E token \in 0..MaxTokens, deleted \in BOOLEAN :
       LET docs == {d \in auth.tokens : d.token = token}
       IN IF docs = {} \/ ~deleted
          THEN auth' = [auth EXCEPT !.last = Returned("logout", "", token, 0, FALSE),
                                    !.turn = 1 - @]
          ELSE auth' = [auth EXCEPT !.tokens = @ \ docs,
                                    !.revoked = @ \cup {token},
                                    !.last = Returned("logout", "", token, 0, TRUE),
                                    !.turn = 1 - @]
  /\ UNCHANGED notAuth

\* Time passes.
HoursPass ==
  /\ auth.now < MaxHours
  /\ auth' = [auth EXCEPT !.now = @ + HoursPerStep]
  /\ UNCHANGED notAuth

\* database_service.py lines 144-164, the index on expires_at with
\* expireAfterSeconds=0: the store drops the tokens that have expired.
TokensExpire ==
  /\ \E d \in auth.tokens : d.expires_at <= auth.now
  /\ auth' = [auth EXCEPT !.tokens = {d \in @ : d.expires_at > auth.now}]
  /\ UNCHANGED notAuth

\* The field active of a user, which lines 82-83 and 151 ask for, is set to
\* False in the users collection; no function of the service does it.
UserDeactivated ==
  /\ \E user \in UserIds :
       /\ auth.users[user].active
       /\ auth' = [auth EXCEPT !.users[user].active = FALSE,
                               !.barred = @ \cup {user}]
  /\ UNCHANGED notAuth

AuthNext ==
  \/ CreateUser \/ Authenticate \/ ValidateToken \/ Logout
  \/ HoursPass \/ TokensExpire \/ UserDeactivated

\* The service with empty collections; nothing else runs.
AuthInit == ServiceInit /\ file_size = 50 /\ file_path \in files

AuthSpec == AuthInit /\ [][AuthNext]_vars

\* ------------------------------------------------------------------ claims

\* The submission passes the validations of lines 52-71.
ValidSubmission == ValidationError(filename, file_size) = ""

\* No thread of the submission, worker threads aside, has a step left.
Finished == pcMain = "returned" /\ pcBg \in {"unstarted", "done", "dead"}

\* The positions of the background thread after the analysis stage.
AfterAnalysis == {"analysis_done", "saving", "update", "read", "complete", "notify", "done"}

\* The positions of the background thread after update_call_record.
AfterUpdate == {"read", "complete", "notify", "done"}

FallbackTags == PyList(<<Word("analysis-error")>>)

\* The locals of the analysis stage hold the fixed result of lines 249-255.
FallbackResult ==
  /\ tags = PyList(<<Word("analysis-error")>>)
  /\ roles = PyDict(<<>>)
  /\ emotions = PyList(<<>>)
  /\ intent = Word("unknown")
  /\ mood = Word("neutral")
  /\ insights = PyList(<<>>)

\* The submission's record is as create_call_record made it.
RecordUntouched ==
  call_id \in DOMAIN calls => calls[call_id] = NewCallDoc(original_filename, file_path)

\* C1: a submission that passes validation publishes at most one terminal
\* event ('complete' or 'error') at any time, and exactly one once the request
\* thread has returned and the background thread, if started, has ended,
\* whatever file.save, create_call_record, the two engines, the guards and
\* update_call_record do.
C1_ExactlyOneTerminal ==
  ValidSubmission =>
    /\ nTerminal <= 1
    /\ Finished => nTerminal = 1
    /\ nTerminal = 1 => lastEvent.stage \in TerminalStages

C1_Witness ==
  /\ ValidSubmission
  /\ Finished
  /\ pcBg = "done"
  /\ lastEvent.stage = "complete"
  /\ nTerminal = 1

\* C2 (as claimed): once the transcription has timed out or its engine has
\* raised and the background thread has ended, the submission has its 'error'
\* event, its record is gone (get_call_by_id returns None) and its artifact
\* no longer exists.
C2_TranscriptionFailureCleansUp ==
  (pcBg = "dead" /\ e_stt \in {TranscriptionTimeout, "engine failure"}) =>
    /\ lastEvent.stage = "error"
    /\ GetCallById(calls, call_id).ty = "None"
    /\ file_path \notin files

\* C3 (as claimed): no upload_progress event carries a percent lower than the
\* event before it.
C3_PercentNeverDecreases ==
  [][lastEvent'.progress >= lastEvent.progress]_vars

\* The analysis worker ended before its guard gave up, and its outcome was
\* looked at (lines 216-245).
AnalysisJoined == pcBg \in AfterAnalysis /\ llm_error # AnalysisTimeout

\* The value the engine returned for key k is present and is no list.
NotAList(k) ==
  /\ analysis.ty = "dict"
  /\ k \in DOMAIN analysis.v
  /\ analysis.v[k].ty # "list"

\* The three forms of analysis failure the claim names.
EngineRaised == analysis_error # ""

NotAMapping == analysis_error = "" /\ analysis.ty # "dict"

NonListFields ==
  /\ analysis_error = ""
  /\ NotAList("tags") \/ NotAList("emotions") \/ NotAList("insights")

\* C4 (as claimed): after an analysis failure of any of the three forms the
\* submission ends with 'complete', never 'error', and the result saved has
\* tags ["analysis-error"], mood "neutral" and intent "unknown".
C4_AnalysisFailureGivesFallback ==
  (AnalysisJoined /\ (EngineRaised \/ NotAMapping \/ NonListFields)) =>
    /\ tags = FallbackTags
    /\ mood = Word("neutral")
    /\ intent = Word("unknown")
    /\ nTerminal = 1 => lastEvent.stage = "complete"

\* What lines 238-243 make of the value v of a field that is no list.
Wrapped(v) == IF v.ty \in {"None"} \/ v.v = <<>> THEN PyList(<<>>) ELSE PyList(<<v>>)

\* C4 (amended): when the analysis engine raises, or returns a value that is
\* false or no mapping, the submission never gets an 'error' event, the fixed
\* result (tags ["analysis-error"], mood "neutral", intent "unknown") is what
\* is handed to update_call_record, and the submission ends with 'complete'.
\* A mapping whose tags, emotions or insights are no lists is not a failure:
\* each such value is replaced by the list holding it (the empty list when it
\* is false), intent and mood are those of the mapping, and the submission
\* ends with 'complete' too.  In both cases the record holds the values
\* handed over whenever the update succeeded.
C4_FallbackOrWrapped ==
  /\ (AnalysisJoined /\ (EngineRaised \/ NotAMapping)) => FallbackResult
  /\ (AnalysisJoined /\ NotAList("tags")) => tags = Wrapped(analysis.v["tags"])
  /\ (AnalysisJoined /\ NotAList("emotions")) => emotions = Wrapped(analysis.v["emotions"])
  /\ (AnalysisJoined /\ NotAList("insights")) => insights = Wrapped(analysis.v["insights"])
  /\ (AnalysisJoined /\ NonListFields) =>
       /\ intent = Get(analysis, "intent", Word("unknown"))
       /\ mood = Get(analysis, "mood", Word("neutral"))
  /\ (AnalysisJoined /\ (EngineRaised \/ NotAMapping \/ NonListFields)) =>
       /\ nTerminal = 1 <=> pcBg \in {"notify", "done"}
       /\ nTerminal = 1 => lastEvent.stage = "complete"
       /\ (pcBg \in AfterUpdate /\ call_id \in DOMAIN calls) =>
            \/ RecordUntouched
            \/ /\ calls[call_id].tags = tags
               /\ calls[call_id].mood = mood
               /\ calls[call_id].intent = intent

C4_Witness ==
  /\ pcBg = "done"
  /\ AnalysisJoined
  /\ NotAList("tags")
  /\ tags = PyList(<<Word("complaint")>>)
  /\ calls[call_id].tags = tags
  /\ calls[call_id].mood = Word("negative")
  /\ lastEvent.stage = "complete"

\* C5: when the analysis worker is still running after its 60 seconds, no
\* 'error' event is published: the thread goes on with the fixed result (tags
\* ["analysis-error"], intent unknown, mood neutral, no roles, emotions or
\* insights) and the transcript of the transcription stage, hands both to
\* update_call_record in the saving stage, and ends with 'complete'.
C5_AnalysisTimeoutAbsorbed ==
  llm_error = AnalysisTimeout =>
    /\ pcBg \in {"fallback"} \cup AfterAnalysis
    /\ transcript.ty = "str" /\ Truthy(transcript)
    /\ transcription_error = ""
    /\ pcBg \in AfterAnalysis => FallbackResult
    /\ nTerminal = 1 <=> pcBg \in {"notify", "done"}
    /\ nTerminal = 1 => lastEvent.stage = "complete"
    /\ pcBg = "update" => lastEvent.stage = "saving"
    /\ (pcBg \in AfterUpdate /\ call_id \in DOMAIN calls) =>
         \/ RecordUntouched
         \/ /\ calls[call_id].transcript = transcript
            /\ calls[call_id].tags = FallbackTags
            /\ calls[call_id].intent = Word("unknown")
            /\ calls[call_id].mood = Word("neutral")
            /\ calls[call_id].roles = PyDict(<<>>)
            /\ calls[call_id].emotions = PyList(<<>>)
            /\ calls[call_id].insights = PyList(<<>>)

C5_Witness ==
  /\ llm_error = AnalysisTimeout
  /\ pcBg = "done"
  /\ lastEvent.stage = "complete"
  /\ calls[call_id].tags = FallbackTags
  /\ calls[call_id].transcript = Word("hello world")

\* C6: a worker its guard gave up on is not stopped and may end at any later
\* time, and what it then leaves behind is never used: after a transcription
\* timeout the record stays as it was created, and after an analysis timeout
\* the result of the stage is and stays the fixed result, in the locals and
\* in the record, whether or not the worker has ended since.
C6_LateResultDiscarded ==
  /\ e_stt = TranscriptionTimeout =>
       /\ pcBg \in {"failed", "dead"}
       /\ RecordUntouched
  /\ (llm_error = AnalysisTimeout /\ pcBg \in AfterAnalysis) =>
       /\ FallbackResult
       /\ (pcBg \in AfterUpdate /\ call_id \in DOMAIN calls) =>
            calls[call_id].tags \in {PyList(<<>>), FallbackTags}

C6_Witness ==
  /\ llm_error = AnalysisTimeout
  /\ analyze_thread = "finished"
  /\ analysis.ty = "dict"
  /\ "tags" \in DOMAIN analysis.v
  /\ analysis.v["tags"] = PyList(<<Word("inquiry")>>)
  /\ pcBg \in AfterUpdate
  /\ calls[call_id].tags = FallbackTags

\* C7 (as claimed): an exception that ends the background thread leaves the
\* submission with a terminal 'error' event and with neither its record nor
\* its artifact in place.
C7_BackgroundExceptionHandled ==
  pcBg = "dead" =>
    /\ nTerminal = 1
    /\ call_id = 0 \/ call_id \notin DOMAIN calls
    /\ file_path = NoPath \/ file_path \notin files

\* C8: a submission that fails a validation (no filename, extension not
\* allowed, more than 100 MB, no bytes, no filename left after sanitising)
\* never has an artifact written, a record created or a background thread
\* started, and once process_upload_async has returned its last event is the
\* 'error' event of that validation, the only terminal event.
C8_ValidationBeforeSideEffects ==
  (~ValidSubmission \/ secure_filename(filename) = <<>>) =>
    /\ files = {}
    /\ DOMAIN calls = {}
    /\ call_id = 0
    /\ file_path = NoPath
    /\ pcBg = "unstarted"
    /\ upload_complete = <<>>
    /\ pcMain = "returned" =>
         /\ lastEvent.stage = "error"
         /\ lastEvent.message \in {"No file selected", "Invalid file type",
                                   "File too large (max 100MB)", "File is empty",
                                   "Invalid filename"}
         /\ nTerminal = 1

C8_Witness ==
  /\ pcMain = "returned"
  /\ filename = <<"a", ".", "p", "d", "f">>
  /\ lastEvent.stage = "error"
  /\ lastEvent.message = "Invalid file type"

Rank(stage) ==
  CASE stage = "none" -> 0
    [] stage = "uploading" -> 1
    [] stage = "processing" -> 2
    [] stage = "transcribing" -> 3
    [] stage = "analyzing" -> 4
    [] stage = "saving" -> 5
    [] stage \in TerminalStages -> 6

\* C10: the stage of an upload_progress event is never earlier in the order
\* uploading, processing, transcribing, analyzing, saving, terminal than the
\* stage of the event before it; an analyzing event is published only after
\* the transcription worker has ended without an exception and the transcript
\* is there; a saving event only once the analysis stage has its result or
\* the fixed result; and no upload_progress event follows a terminal event.
C10_StageOrder ==
  /\ [](lastEvent.stage = "analyzing" =>
          /\ transcribe_thread = "finished"
          /\ transcription_error = ""
          /\ transcript.ty = "str" /\ Truthy(transcript))
  /\ [](lastEvent.stage = "saving" =>
          /\ tags.ty = "list" /\ emotions.ty = "list" /\ insights.ty = "list"
          /\ roles.ty = "dict" /\ summary.ty = "str"
          /\ llm_error # "" => FallbackResult)
  /\ [][/\ Rank(lastEvent'.stage) >= Rank(lastEvent.stage)
        /\ nTerminal >= 1 => (evParity' = evParity /\ lastEvent' = lastEvent)]_vars

C10_Witness ==
  /\ lastEvent.stage = "saving"
  /\ llm_error = "No analysis result from LLM"
  /\ transcript = EmptyTranscript


\* The submission of the scenario: a.wav, 50 bytes.
SmallWav == filename = <<"a", ".", "w", "a", "v">> /\ file_size = 50

\* The analysis engine returned the well-formed result with tags ["inquiry"]
\* and the stage took it over.
WellFormedAnalysis ==
  /\ analysis = AnalysisResults[4]
  /\ analysis_error = ""
  /\ llm_error = ""

\* The scenario has run to its end.
ScenarioDone ==
  /\ SmallWav
  /\ pcBg = "done"
  /\ transcript = Word("hello world")
  /\ WellFormedAnalysis

\* The (stage, percent) pairs that may follow the pair of event a, as the
\* scenario lists them.
ListedNext(a, b) ==
  LET p == b.progress
  IN CASE a.stage = "none" -> b.stage = "uploading" /\ p = 0
       [] a.stage = "uploading" /\ a.progress = 0 -> b.stage = "uploading" /\ p = 10
       [] a.stage = "uploading" /\ a.progress = 10 -> b.stage = "processing" /\ p = 25
       [] a.stage = "processing" /\ a.progress = 25 -> b.stage = "processing" /\ p = 30
       [] a.stage = "processing" /\ a.progress = 30 -> b.stage = "transcribing" /\ p \in 30..70
       [] a.stage = "transcribing" ->
            \/ b.stage = "transcribing" /\ p \in 30..70
            \/ b.stage = "analyzing" /\ p \in 70..90
       [] a.stage = "analyzing" ->
            \/ b.stage = "analyzing" /\ p \in 70..90
            \/ b.stage = "saving" /\ p = 90
       [] a.stage = "saving" -> b.stage = "complete" /\ p = 100
       [] OTHER -> FALSE

\* The pairs that may follow the pair of event a in the code: uploading(20),
\* 'File saved', comes between uploading(10) and processing(25).
PublishedNext(a, b) ==
  CASE a.stage = "uploading" /\ a.progress = 10 -> b.stage = "uploading" /\ b.progress = 20
    [] a.stage = "uploading" /\ a.progress = 20 -> b.stage = "processing" /\ b.progress = 25
    [] OTHER -> ListedNext(a, b)

\* C11 (as claimed): for a.wav of 50 bytes every event that is no 'error'
\* follows the event before it as the list uploading(0), uploading(10),
\* processing(25), processing(30), transcribing 30..70, analyzing 70..90,
\* saving(90), complete(100) says, with no other pair in between; and once the
\* scenario has run to its end the record has transcript "hello world" and
\* tags ["inquiry"].
C11_ListedEvents ==
  /\ [][(SmallWav /\ evParity' # evParity /\ lastEvent'.stage # "error") =>
          ListedNext(lastEvent, lastEvent')]_vars
  /\ [](ScenarioDone =>
          /\ call_id \in DOMAIN calls
          /\ calls[call_id].transcript = Word("hello world")
          /\ calls[call_id].tags = PyList(<<Word("inquiry")>>))

\* C11 (amended): the same with uploading(20) between uploading(10) and
\* processing(25); at the end of the scenario the last event is complete(100),
\* the values handed to update_call_record are "hello world" and ["inquiry"],
\* and the record holds them unless update_call_record stored nothing.
C11_PublishedEvents ==
  /\ [][(SmallWav /\ evParity' # evParity /\ lastEvent'.stage # "error") =>
          PublishedNext(lastEvent, lastEvent')]_vars
  /\ [](ScenarioDone =>
          /\ lastEvent.stage = "complete" /\ lastEvent.progress = 100
          /\ tags = PyList(<<Word("inquiry")>>)
          /\ call_id \in DOMAIN calls
          /\ \/ RecordUntouched
             \/ /\ calls[call_id].transcript = Word("hello world")
                /\ calls[call_id].tags = PyList(<<Word("inquiry")>>))

C11_Witness ==
  /\ ScenarioDone
  /\ lastEvent.stage = "complete"
  /\ calls[call_id].transcript = Word("hello world")
  /\ calls[call_id].tags = PyList(<<Word("inquiry")>>)
  /\ calls[call_id].summary = Word("short call")


\* C12: once the background thread has started, the submission gets its
\* terminal event whatever the two engines do, even when a worker never
\* returns, as long as the threads keep being scheduled.  The guard of the
\* transcription gives up at its first poll after 300 seconds with the
\* timeout failure, the guard of the analysis at its first poll after 60
\* seconds with the fixed result; neither polls again after that, so neither
\* waits longer than its budget and one sleep.
C12_GuardedTermination ==
  /\ [](pcBg = "guard_stt" => elapsed <= 2 * timeout_seconds + MaxSleep)
  /\ [](pcBg = "guard_llm" => elapsed <= 2 * timeout_llm + MaxSleep)
  /\ [][(/\ pcBg = "guard_stt" /\ pcBg' # pcBg
         /\ transcribe_thread = "alive" /\ elapsed > 2 * timeout_seconds) =>
          (pcBg' = "failed" /\ e_stt' = TranscriptionTimeout)]_vars
  /\ [][(/\ pcBg = "guard_llm" /\ pcBg' # pcBg
         /\ analyze_thread = "alive" /\ elapsed > 2 * timeout_llm) =>
          (pcBg' = "fallback" /\ llm_error' = AnalysisTimeout)]_vars
  /\ [][(e_stt' = TranscriptionTimeout /\ e_stt # TranscriptionTimeout) =>
          elapsed > 2 * timeout_seconds]_vars
  /\ [][(llm_error' = AnalysisTimeout /\ llm_error # AnalysisTimeout) =>
          elapsed > 2 * timeout_llm]_vars
  /\ (pcBg = "begin") ~> (nTerminal = 1)

\* Both workers hung: the transcription has timed out with its worker still
\* running and the submission has its terminal event.
C12_Witness ==
  /\ e_stt = TranscriptionTimeout
  /\ transcribe_thread = "alive"
  /\ pcBg = "dead"
  /\ nTerminal = 1
  /\ lastEvent.stage = "error"


\* The transcription engine returned no text, or blanks only.
BlankTranscript == ~Truthy(transcript) \/ IsBlank(transcript.v)

\* The positions of the background thread once the transcription stage has
\* its transcript.
AfterTranscription ==
  {"stt_done", "announce_llm", "start_llm", "guard_llm", "join_llm", "fallback"}
    \cup AfterAnalysis

\* The positions of upload_and_process once it has its transcript.
SyncAfterTranscription == {"sync_analyze", "sync_update", "sync_read"}

\* C13: when the transcription engine returns an empty text or blanks only,
\* the transcript becomes "[Empty transcript - audio may be silent or
\* unclear]" and no event is published for it; from then on the transcript of
\* the stage is never empty, the submission gets no 'error' event, the
\* analysis is given the replaced transcript, the thread goes on to the end,
\* and the record holds the replaced transcript once update_call_record has
\* stored it.  The same replacement is made by upload_and_process, which goes
\* on to the analysis, the update and its answer.
C13_EmptyTranscriptReplaced ==
  /\ [][(/\ pcBg = "join_stt" /\ pcBg' # pcBg
         /\ transcription_error = "" /\ BlankTranscript) =>
          /\ transcript' = EmptyTranscript
          /\ pcBg' = "stt_done"
          /\ evParity' = evParity /\ lastEvent' = lastEvent]_vars
  /\ [][(pcMain = "sync_check" /\ pcMain' # pcMain /\ BlankTranscript) =>
          /\ transcript' = EmptyTranscript
          /\ pcMain' = "sync_analyze"
          /\ response' = 0]_vars
  /\ []((pcBg \in AfterTranscription \/ pcMain \in SyncAfterTranscription) =>
          transcript.ty = "str" /\ ~BlankTranscript)
  /\ [](transcript = EmptyTranscript =>
          /\ pcBg \notin {"failed", "dead"}
          /\ lastEvent.stage # "error"
          /\ nTerminal = 1 => lastEvent.stage = "complete"
          /\ pcBg \in {"guard_llm", "join_llm", "fallback"} \cup AfterAnalysis =>
               transcript_for_analysis = EmptyTranscript
          /\ ((pcBg \in AfterUpdate \/ pcMain = "sync_read") /\ call_id \in DOMAIN calls) =>
               \/ RecordUntouched
               \/ calls[call_id].transcript = EmptyTranscript
          /\ (pcMain = "responded" /\ response = 201) =>
               \/ call_record.v.transcript = EmptyTranscript
               \/ call_record.v.transcript = PyStr(<<>>))
  /\ (transcript = EmptyTranscript /\ pcBg = "stt_done") ~> (pcBg = "done")
  /\ (transcript = EmptyTranscript /\ pcMain = "sync_analyze") ~>
       (pcMain = "responded" /\ response \in {201, 500})

\* upload_and_process was given silence: it answered 201 with a record whose
\* transcript is the replacement.
C13_Witness ==
  /\ session_id = ""
  /\ pcMain = "responded"
  /\ response = 201
  /\ transcript = EmptyTranscript
  /\ calls[call_id].transcript = EmptyTranscript
  /\ call_record.v.transcript = EmptyTranscript


\* The payload of the upload_progress event ev.
ProgressData(ev) ==
  [session_id |-> session_id, stage |-> ev.stage, progress |-> ev.progress,
   message |-> ev.message]

\* The emits are those of one message named event with payload data: first to
\* the room of the session, then to everyone.
RoomThenEveryone(emits, event, data) ==
  /\ Len(emits) = 2
  /\ emits[1] = [event |-> event, data |-> data, to |-> <<session_id>>]
  /\ emits[2] = [event |-> event, data |-> data, to |-> <<>>]

\* C14: every upload_progress event and every upload_complete message is
\* emitted exactly twice with the same payload, first to the room named by the
\* session id of the submission and then with no room, to every client; no
\* message is emitted to one of the two alone.
C14_EmittedTwice ==
  /\ [][evParity' # evParity =>
          RoomThenEveryone(delivered', "upload_progress", ProgressData(lastEvent'))]_vars
  /\ [][upload_complete' # upload_complete =>
          /\ Len(upload_complete') = Len(upload_complete) + 1
          /\ RoomThenEveryone(delivered', "upload_complete",
                              upload_complete'[Len(upload_complete')])]_vars
  /\ [][delivered' # delivered =>
          (evParity' # evParity \/ upload_complete' # upload_complete)]_vars
  /\ [](delivered # <<>> =>
          /\ Len(delivered) = 2
          /\ delivered[1].to = <<session_id>> /\ delivered[2].to = <<>>
          /\ delivered[1].event = delivered[2].event
          /\ delivered[1].data = delivered[2].data
          /\ delivered[1].data.session_id = session_id)

\* The message of a success has gone to the room and to everyone.
C14_Witness ==
  /\ pcBg = "done"
  /\ Len(delivered) = 2
  /\ delivered[1].event = "upload_complete"
  /\ delivered[1].to = <<"s1">>
  /\ delivered[2].to = <<>>
  /\ delivered[2].data.success
  /\ delivered[2].data.data = call_record


\* C15 (as claimed): _send_progress never raises, so an emit that fails is
\* never what a handler of the pipeline caught: it does not take the request
\* thread to the handler of line 296 or out of process_upload_async, it is
\* not the failure of a transcription or of an analysis, and it does not end
\* the background thread.
C15_PublishNeverRaises ==
  /\ e # EmitFailed
  /\ pcMain # "raised"
  /\ e_stt # EmitFailed
  /\ llm_error # EmitFailed
  /\ pcBg = "dead" => (e_stt # "" /\ nTerminal = 1)


\* The record of the submission is provisional: no transcript, no summary, no
\* tags.
Provisional(doc) ==
  /\ doc.transcript = PyStr(<<>>)
  /\ doc.summary = PyStr(<<>>)
  /\ doc.tags = PyList(<<>>)

\* C16: the record is created, provisional, while neither the background
\* thread nor the transcription worker has been started, and stays as created
\* until the saving stage; the one step that changes it is update_call_record
\* after the 'saving' event, which writes the transcript of the transcription
\* stage together with the result (or the fixed result) of the analysis
\* stage; update_call_record is not reached a second time.
C16_CreatedThenUpdatedOnce ==
  /\ []((pcBg # "unstarted" \/ transcribe_thread # "unstarted") => call_id # 0)
  /\ [][call_id' # call_id =>
          /\ pcBg = "unstarted" /\ transcribe_thread = "unstarted"
          /\ call_id = 0
          /\ call_id' \notin DOMAIN calls /\ call_id' \in DOMAIN calls'
          /\ Provisional(calls'[call_id'])
          /\ calls'[call_id'] = NewCallDoc(original_filename, file_path)]_vars
  /\ []((call_id \in DOMAIN calls /\ pcBg \notin AfterUpdate) =>
          (RecordUntouched /\ Provisional(calls[call_id])))
  /\ [][(/\ call_id \in DOMAIN calls /\ call_id \in DOMAIN calls'
         /\ calls'[call_id] # calls[call_id]) =>
          /\ pcBg = "update" /\ pcBg' = "read"
          /\ lastEvent.stage = "saving"
          /\ transcript.ty = "str" /\ ~BlankTranscript
          /\ tags.ty = "list"
          /\ calls'[call_id].transcript = transcript
          /\ calls'[call_id].summary = summary
          /\ calls'[call_id].tags = tags
          /\ calls'[call_id].roles = roles
          /\ calls'[call_id].emotions = emotions
          /\ calls'[call_id].intent = intent
          /\ calls'[call_id].mood = mood
          /\ calls'[call_id].insights = insights]_vars
  /\ [][(pcBg \in AfterUpdate) => (pcBg' \in AfterUpdate)]_vars
  /\ [][pcBg' = "update" => (pcBg = "update" \/ pcBg = "saving")]_vars

\* update_call_record has just stored the transcript together with the fixed
\* result of a failed analysis.
C16_Witness ==
  /\ pcBg = "read"
  /\ lastEvent.stage = "saving"
  /\ llm_error # ""
  /\ calls[call_id].transcript = Word("hello world")
  /\ calls[call_id].tags = FallbackTags


\* C17: once a submission has its 'error' event, update_call_record has not
\* been called for it and is not called later: its record, when it still
\* exists, is as create_call_record made it (no transcript, no summary, no
\* tags, roles, emotions or insights, intent unknown, mood neutral), and no
\* step changes it.
C17_ErrorLeavesRecordUntouched ==
  /\ [](lastEvent.stage = "error" =>
          /\ pcBg \notin AfterUpdate /\ pcBg # "update"
          /\ RecordUntouched
          /\ call_id \in DOMAIN calls =>
               /\ Provisional(calls[call_id])
               /\ calls[call_id].roles = PyDict(<<>>)
               /\ calls[call_id].emotions = PyList(<<>>)
               /\ calls[call_id].insights = PyList(<<>>)
               /\ calls[call_id].intent = Word("unknown")
               /\ calls[call_id].mood = Word("neutral"))
  /\ [][(/\ lastEvent.stage = "error"
         /\ call_id \in DOMAIN calls /\ call_id \in DOMAIN calls') =>
          calls'[call_id] = calls[call_id]]_vars

\* The transcription engine raised: the thread has ended with the 'error'
\* event and the record is still there, as created.
C17_Witness ==
  /\ pcBg = "dead"
  /\ e_stt = "engine failure"
  /\ lastEvent.stage = "error"
  /\ call_id \in DOMAIN calls
  /\ calls[call_id] = NewCallDoc(original_filename, file_path)


\* C18 (as claimed): when the 'complete' event has been published,
\* update_call_record has stored the transcript and the analysis in the
\* record of the submission, and the upload_complete message that follows
\* carries that record, not None.
C18_CompleteMeansSaved ==
  lastEvent.stage = "complete" =>
    /\ call_id \in DOMAIN calls
    /\ calls[call_id].transcript = transcript
    /\ calls[call_id].summary = summary
    /\ calls[call_id].tags = tags
    /\ call_record.ty = "dict"
    /\ pcBg = "done" =>
         /\ upload_complete[Len(upload_complete)].data.ty = "dict"
         /\ upload_complete[Len(upload_complete)].data.v.transcript = transcript


\* The request carries a session id, a file and a filename that is not empty.
AsyncRequest == session_id # "" /\ has_file /\ filename # <<>>

\* C19: a request with a session id, a file and a filename is answered 202
\* and nothing else, whatever becomes of the submission: a failed validation,
\* a file or a record that cannot be written, a thread that cannot be
\* started, a transcription that fails.  process_upload_async is left at the
\* step that starts the background thread, with the file saved and the record
\* created, or earlier on a failure; while it runs no worker has been
\* started, and once it has returned the route can answer whatever the
\* background thread and the workers are doing.
C19_AcknowledgedAtOnce ==
  /\ [](AsyncRequest => response \in {0, 202})
  /\ [](response = 202 => (AsyncRequest /\ pcMain = "responded"))
  /\ [](pcMain \notin {"returned", "responded"} =>
          /\ pcBg = "unstarted"
          /\ transcribe_thread = "unstarted"
          /\ analyze_thread = "unstarted")
  /\ [][(pcBg = "unstarted" /\ pcBg' # "unstarted") =>
          /\ pcMain' = "returned"
          /\ file_path \in files
          /\ call_id \in DOMAIN calls]_vars
  /\ [](pcMain = "returned" => ENABLED <<UploadStarted>>_vars)
  /\ [][(pcMain = "returned" /\ pcMain' # pcMain) => response' = 202]_vars
  /\ AsyncRequest ~> (response = 202)

\* The route has answered 202 and the background thread has not yet run its
\* first statement.
C19_Witness ==
  /\ response = 202
  /\ pcBg = "begin"
  /\ transcribe_thread = "unstarted"
  /\ file_path \in files
  /\ call_id \in DOMAIN calls


\* The step is not one of the other submission.
OwnStep == other' = other

\* C20: of two submissions that run at the same time, with the same session
\* id and the same filename, each has a record and an artifact of its own;
\* no step of a submission adds, changes or deletes a record other than the
\* one it created, or removes a file other than the one it saved; the record
\* its update writes and the record its upload_complete message carries are
\* its own.
C20_OwnRecordOnly ==
  /\ []((call_id # 0 /\ other.call_id # 0) => call_id # other.call_id)
  /\ []((file_path # NoPath /\ other.file_path # NoPath) =>
          file_path # other.file_path)
  /\ [][OwnStep =>
          /\ \A i \in DOMAIN calls \ {call_id} :
               i \in DOMAIN calls' /\ calls'[i] = calls[i]
          /\ \A i \in DOMAIN calls' \ DOMAIN calls : i = call_id'
          /\ \A f \in files \ {file_path} : f \in files'
          /\ \A f \in files' \ files : f = file_path]_vars
  /\ []((call_id \in DOMAIN calls) =>
          calls[call_id].audio_file_path = file_path)
  /\ []((other.call_id \in DOMAIN calls) =>
          /\ calls[other.call_id].audio_file_path = other.file_path
          /\ calls[other.call_id].transcript \in {PyStr(<<>>), Word("another call")})
  /\ [](call_record.ty = "dict" => call_record.v.audio_file_path = file_path)
  /\ [](\A i \in DOMAIN upload_complete :
          upload_complete[i].data.ty = "dict" =>
            /\ upload_complete[i].data.v.audio_file_path = file_path
            /\ upload_complete[i].data.v.transcript # Word("another call"))

\* Both submissions have saved their results, the other one first created
\* its record, and each record holds the transcript of its own submission.
C20_Witness ==
  /\ pcBg = "done"
  /\ other.pc = "updated"
  /\ other.call_id = 1 /\ call_id = 2
  /\ calls[call_id].transcript = Word("hello world")
  /\ calls[other.call_id].transcript = Word("another call")
  /\ upload_complete[1].data.ty = "dict"
  /\ upload_complete[1].data.v.transcript = Word("hello world")


\* A file of no bytes whose name has an allowed extension.
EmptyAllowed == has_file /\ file_size = 0 /\ allowed_file(filename)

\* The pieces of the errors that blame the type or the size of the file.
OtherCauses == {"Invalid file type", "File too large"}

\* C21: a file of no bytes with an allowed extension is rejected for being
\* empty and for nothing else.  Handed to process_upload_async, the only
\* events are 'uploading' 0 and then 'error' 0 'File is empty', the one
\* terminal event, and nothing is saved, created or started.  Handed to
\* upload_and_process, the answer is 400 with success false and an error
\* that has 'empty' and neither the type nor the size cause.
C21_EmptyFileRejected ==
  EmptyAllowed =>
    /\ files = {} /\ DOMAIN calls = {} /\ pcBg = "unstarted"
    /\ pcMain \in {"route", "start", "check", "returned", "sync", "responded"}
    /\ lastEvent \in
         { NoEvent,
           [stage |-> "uploading", progress |-> 0, message |-> "Validating file..."],
           [stage |-> "error", progress |-> 0, message |-> "File is empty"] }
    /\ (session_id # "" /\ pcMain \in {"returned", "responded"}) =>
         /\ lastEvent = [stage |-> "error", progress |-> 0, message |-> "File is empty"]
         /\ nTerminal = 1
    /\ (session_id = "" /\ pcMain = "responded") =>
         /\ response = 400
         /\ body.v.success = PyBool(FALSE)
         /\ Contains(body.v.error.v, "empty")
         /\ \A cause \in OtherCauses : ~Contains(body.v.error.v, cause)
         /\ called = <<>>

C21_Witness ==
  /\ EmptyAllowed
  /\ session_id = ""
  /\ pcMain = "responded"
  /\ response = 400
  /\ body = Failure(<<"File is ", "empty">>)


\* A request upload_and_process rejects for its file part or its filename.
NoUsableFile == ~has_file \/ filename = <<>> \/ ~allowed_file(filename)

\* C22: upload_and_process answers 400 with success false, and has saved no
\* file, created no record and called no service, for every request that
\* has no 'file' part (the error has 'No file provided'), whose filename is
\* empty, or whose filename in lower case ends with none of .wav, .mp3,
\* .m4a, .ogg, .flac, .webm (the error has 'Invalid file type').
C22_RejectedBeforeSideEffects ==
  NoUsableFile =>
    /\ files = {} /\ DOMAIN calls = {} /\ called = <<>>
    /\ call_id = 0 /\ file_path = NoPath
    /\ transcript = Unbound /\ analysis = Unbound
    /\ pcMain \in {"sync", "responded"}
    /\ pcMain = "responded" =>
         /\ response = 400
         /\ body.v.success = PyBool(FALSE)
         /\ ~has_file => Contains(body.v.error.v, "No file provided")
         /\ (has_file /\ filename # <<>>) =>
              Contains(body.v.error.v, "Invalid file type")

C22_Witness ==
  /\ pcMain = "responded"
  /\ has_file
  /\ filename = <<"a", ".", "p", "d", "f">>
  /\ response = 400
  /\ Contains(body.v.error.v, "Invalid file type")
  /\ files = {}


\* A request that passes every validation of upload_and_process.
ValidUpload == SyncValidationError(has_file, filename, file_size) = <<>>

\* The calls of upload_and_process when nothing fails.
SixSteps ==
  <<"save", "create_call_record", "transcribe", "analyze_transcript",
    "update_call_record", "get_call_by_id">>

IsPrefix(s, t) == Len(s) <= Len(t) /\ s = SubSeq(t, 1, Len(s))

\* The errors upload_and_process answers with when a call it made failed.
CollaboratorFailures ==
  {"Failed to save file: ", "File was not saved correctly",
   "Failed to create call record: ", "Audio file not found: ",
   "File uploaded but processing failed: ",
   "Call record created but could not be retrieved"}

\* C23: for a request that passes the validations, upload_and_process saves
\* the file, creates the record, transcribes, analyses, updates the record
\* and reads it, in this order, each once and the next only after the one
\* before; the answer is then 201 with success true and the record that
\* was read as data.  Any other answer is a 500 that names the call that
\* failed.
C23_SixStepsInOrder ==
  ValidUpload =>
    /\ response # 500 => IsPrefix(called, SixSteps)
    /\ pcMain = "responded" =>
         \/ /\ response = 201
            /\ called = SixSteps
            /\ file_path \in files
            /\ body.v.success = PyBool(TRUE)
            /\ Truthy(call_record)
            /\ body.v.data = call_record
            /\ call_record = GetCallById(calls, call_id)
         \/ /\ response = 500
            /\ body.v.success = PyBool(FALSE)
            /\ \E piece \in CollaboratorFailures : Contains(body.v.error.v, piece)

C23_Witness ==
  /\ pcMain = "responded"
  /\ response = 201
  /\ called = SixSteps
  /\ llm_error = ""
  /\ body.v.success = PyBool(TRUE)
  /\ body.v.data.v.transcript = Word("hello world")
  /\ body.v.data.v.summary = Word("short call")


\* The text of an answer is no JSON, or is JSON and no object.
Malformed(content) ==
  LET parsed == json_loads(Unfenced(content))
  IN ~parsed.ok \/ parsed.val.ty # "dict"

\* C24: when the model's answer is malformed or is not the JSON object
\* asked for, analyze_transcript raises; it returns no result for it.
C24_MalformedOutputRaises ==
  (llm.api = "answered" /\ Malformed(llm.content)) =>
    /\ llm.pc = "raised"
    /\ llm.raised # ""
    /\ llm.result = PyNone

\* C25: transcribe raises FileNotFoundError for a path that has no file, and
\* has then neither preprocessed the audio nor called the engine; when the
\* engine raises, transcribe raises too and returns no text; it returns a
\* text only after the engine returned one.
C25_TranscribeFailures ==
  /\ (stt.pc # "idle" /\ file_path \notin files) =>
       /\ stt.pc = "raised"
       /\ stt.raised = "FileNotFoundError"
       /\ called = <<"exists">>
       /\ stt.engine = ""
  /\ stt.engine = "raised" =>
       /\ stt.pc = "raised"
       /\ stt.raised = "engine failure"
       /\ stt.text = <<>>
  /\ stt.pc = "returned" =>
       /\ stt.engine = "returned"
       /\ stt.raised = ""
       /\ called = <<"exists", "_preprocess_audio", "model.transcribe">>
  /\ stt.raised = "FileNotFoundError" => file_path \notin files

C25_Witness ==
  /\ file_path \notin files
  /\ stt.pc = "raised"
  /\ stt.raised = "FileNotFoundError"
  /\ llm.pc = "idle"


\* get_one has answered.
GetOneAnswered == pcMain = "answered" /\ request.op = "get_one"

\* C26: get_one answers 400, and has not asked the store, for an id that is
\* empty or all blanks; 404 with an error that has 'not found' when the
\* store has no record with the id; 200 with the record in every other
\* case.
C26_GetOneByStoreContent ==
  GetOneAnswered =>
    LET id == ObjectIdOf(request.call_id)
    IN IF request.call_id = <<>> \/ IsBlank(request.call_id)
       THEN response = 400 /\ called = <<>>
       ELSE IF id \notin DOMAIN calls
       THEN /\ response = 404
            /\ Contains(body.v.error.v, "not found")
       ELSE /\ response = 200
            /\ body.v.success = PyBool(TRUE)
            /\ body.v.data = PyDict(calls[id])

\* C27: delete_one for an id that has no record in the store answers 404
\* with success false, has looked the record up and called nothing else,
\* and leaves the files and the records as they were.
C27_DeleteOfNoRecord ==
  [][ (pcMain = "delete_one" /\ ObjectIdOf(request.call_id) \notin DOMAIN calls) =>
        /\ response' = 404
        /\ body'.v.success = PyBool(FALSE)
        /\ called' = <<"get_call_by_id">>
        /\ files' = files
        /\ calls' = calls ]_vars

C27_Witness ==
  /\ pcMain = "answered"
  /\ request.op = "delete_one"
  /\ request.call_id = <<"3">>
  /\ response = 404
  /\ called = <<"get_call_by_id">>
  /\ DOMAIN calls = {1, 2}
  /\ Cardinality(files) = 2

\* The integers the values of a parameter write.
WrittenInteger ==
  (PyStr(<<"0">>) :> 0) @@ (PyStr(<<"1">>) :> 1)
  @@ (PyStr(<<"1", "0", "0", "0">>) :> 1000)
  @@ (PyStr(<<"1", "0", "0", "1">>) :> 1001)
  @@ (PyStr(<<"-", "5">>) :> (0 - 5)) @@ (PyStr(<<"-", "1">>) :> (0 - 1))
  @@ (PyStr(<<" ", "7", " ">>) :> 7)

\* C28: get_all calls get_all_calls with a limit in 1..1000 and a skip of 0
\* or more: the limit the request writes when it writes an integer in
\* 1..1000, 100 when it has none, writes no integer or one outside
\* 1..1000; the skip the request writes when it writes an integer of 0 or
\* more, 0 when not.  The answer is 200 with this limit and this skip,
\* whatever the parameters were; it is 500 only when get_all_calls raised.
C28_LimitAndSkipNormalised ==
  IF pcMain = "answered" /\ request.op = "get_all"
  THEN LET good(p, low, high) ==
             p \in DOMAIN WrittenInteger /\ WrittenInteger[p] \in low..high
           limit == IF good(request.limit, 1, 1000)
                    THEN WrittenInteger[request.limit] ELSE 100
           skip == IF good(request.skip, 0, 1000)
                   THEN WrittenInteger[request.skip] ELSE 0
       IN /\ query.limit \in 1..1000 /\ query.skip >= 0
          /\ query = [limit |-> limit, skip |-> skip]
          /\ called = <<"get_all_calls">>
          /\ \/ /\ response = 200
                /\ body.v.success = PyBool(TRUE)
                /\ body.v.limit = PyInt(limit)
                /\ body.v.skip = PyInt(skip)
                /\ body.v.count = PyInt(Len(body.v.data.v))
                /\ Len(body.v.data.v) <= limit
             \/ /\ response = 500
                /\ Contains(body.v.error.v, "Failed to retrieve calls: ")
  ELSE query = NoQuery

C28_Witness ==
  /\ pcMain = "answered"
  /\ request.op = "get_all"
  /\ request.limit = PyStr(<<"1", "0", "0", "1">>)
  /\ request.skip = PyStr(<<"-", "1">>)
  /\ query = [limit |-> 100, skip |-> 0]
  /\ response = 200
  /\ body.v.limit = PyInt(100)
  /\ body.v.count = PyInt(2)


\* C29: every upload_progress event carries a percent in 0..100, an event of
\* the stage 'transcribing' one in 30..70 and an event of the stage
\* 'analyzing' one in 70..90; the percent of a tick is in 35..70 at every
\* elapsed time up to 300 s of transcription and in 70..90 at every elapsed
\* time up to 60 s of analysis.
C29_PercentInStageRange ==
  /\ lastEvent.progress \in 0..100
  /\ lastEvent.stage = "transcribing" => lastEvent.progress \in 30..70
  /\ lastEvent.stage = "analyzing" => lastEvent.progress \in 70..90
  /\ pcBg = "guard_stt" /\ elapsed <= 2 * timeout_seconds =>
       TranscribePercent(elapsed) \in 35..70
  /\ pcBg = "guard_llm" /\ elapsed <= 2 * timeout_llm =>
       AnalyzePercent(elapsed) \in 70..90

C29_Witness ==
  /\ lastEvent = [stage |-> "transcribing", progress |-> 70,
                  message |-> "Transcribing audio... (300s)"]
  /\ pcBg = "guard_stt"

\* C30 (as claimed): within the stage 'transcribing', and within the stage
\* 'analyzing', no event carries a percent lower than the event before it,
\* at whatever elapsed time the two were sent.
C30_PercentNeverDecreasesInStage ==
  [][ (lastEvent'.stage = lastEvent.stage
       /\ lastEvent.stage \in {"transcribing", "analyzing"}) =>
        lastEvent'.progress >= lastEvent.progress ]_vars


\* The guard of the stage looks at its worker, which is alive and within
\* its budget, and goes to sleep.
GuardLooks(pc, thread, budget) ==
  /\ pcBg = pc /\ pcBg' = pc
  /\ thread = "alive"
  /\ elapsed <= 2 * budget
  /\ elapsed' # elapsed

\* The last event sent is the tick of the elapsed second sec.
TickOf(sec) ==
  lastEvent.message \in
    { "Transcribing audio... (" \o ToString(sec) \o "s)",
      "Analyzing transcript... (" \o ToString(sec) \o "s)" }

\* C31: a guard that looks at its running worker at an elapsed second sends
\* one progress event when the second is even, is not second 0 and has no
\* tick yet, and sends none when the second is odd, is second 0 or has its
\* tick.
C31_OneTickPerEvenSecondAfterZero ==
  [][ (\/ GuardLooks("guard_stt", transcribe_thread, timeout_seconds)
       \/ GuardLooks("guard_llm", analyze_thread, timeout_llm)) =>
        LET sec == elapsed \div 2
        IN (evParity' # evParity) <=>
             (sec # 0 /\ sec % 2 = 0 /\ ~TickOf(sec)) ]_vars

\* The guard looks a second time within second 2, whose tick was sent.
C31_Witness ==
  /\ pcBg = "guard_stt"
  /\ transcribe_thread = "alive"
  /\ elapsed = 5
  /\ TickOf(2)

\* C31 (as claimed): a guard that looks at its running worker at an elapsed
\* second sends one progress event when the second is even, second 0 too,
\* and has no tick yet, and sends none when the second is odd or has its
\* tick.
C31_OneTickPerEvenSecond ==
  [][ (\/ GuardLooks("guard_stt", transcribe_thread, timeout_seconds)
       \/ GuardLooks("guard_llm", analyze_thread, timeout_llm)) =>
        LET sec == elapsed \div 2
        IN (evParity' # evParity) <=> (sec % 2 = 0 /\ ~TickOf(sec)) ]_vars


\* The steps a worker thread takes: it is started, and it ends.
ThreadSteps == { <<"unstarted", "alive">>, <<"alive", "finished">> }

\* C32: the transcription worker and the analysis worker are each started at
\* most once, whatever their outcome: a worker that was started is never
\* started again and one that ended stays ended.  A transcription that
\* failed or timed out ends the submission with 'error' and no analysis; an
\* analysis that timed out does not end it.
C32_StagesNeverRetried ==
  /\ [](pcBg = "start_stt" => transcribe_thread = "unstarted")
  /\ [](pcBg = "start_llm" => analyze_thread = "unstarted")
  /\ [](pcBg = "dead" => /\ analyze_thread = "unstarted"
                         /\ e_stt # ""
                         /\ lastEvent.stage = "error")
  /\ [](llm_error = AnalysisTimeout => pcBg \notin {"failed", "dead"})
  /\ [][ /\ transcribe_thread' # transcribe_thread =>
             <<transcribe_thread, transcribe_thread'>> \in ThreadSteps
         /\ analyze_thread' # analyze_thread =>
             <<analyze_thread, analyze_thread'>> \in ThreadSteps ]_vars

C32_Witness ==
  /\ pcBg = "dead"
  /\ e_stt = TranscriptionTimeout
  /\ transcribe_thread = "alive"
  /\ analyze_thread = "unstarted"


\* The analysis worker was started with its text.
AnalysisStarted ==
  pcBg \in {"guard_llm", "join_llm", "fallback", "analysis_done", "saving",
            "update", "read", "complete", "notify", "done"}

\* update_call_record has returned.
AfterSave == pcBg \in {"read", "complete", "notify", "done"}

\* The record of the submission has the transcript of its creation or the
\* whole transcript.
WholeTranscriptSaved ==
  AfterSave /\ call_id \in DOMAIN calls =>
    calls[call_id].transcript \in {PyStr(<<>>), transcript}

\* C33: the text handed to the analysis worker is the transcript when it has
\* at most 1000 characters; when it has more, it is the first 1000
\* characters of the transcript followed by the mark "... [truncated]" and
\* nothing else.  The transcript saved on the record is the whole one.
C33_PrefixAndMarkAnalysed ==
  /\ AnalysisStarted =>
       IF Len(transcript.v) <= max_transcript_length
       THEN transcript_for_analysis = transcript
       ELSE /\ Len(transcript_for_analysis.v) = max_transcript_length + 1
            /\ \A i \in 1..max_transcript_length :
                 transcript_for_analysis.v[i] = transcript.v[i]
            /\ transcript_for_analysis.v[max_transcript_length + 1]
                 = "... [truncated]"
  /\ WholeTranscriptSaved

\* A transcript of 1001 characters was analysed and saved.
C33_Witness ==
  /\ pcBg = "done"
  /\ transcript = PyStr(LongText)
  /\ Len(transcript_for_analysis.v) = max_transcript_length + 1
  /\ call_id \in DOMAIN calls
  /\ calls[call_id].transcript = PyStr(LongText)

\* C33 (as claimed): the text handed to the analysis worker is the
\* transcript when it has at most 1000 characters and its first 1000
\* characters, with nothing after them, when it has more; the transcript
\* saved on the record is the whole one.
C33_PrefixAnalysed ==
  /\ AnalysisStarted =>
       IF Len(transcript.v) <= max_transcript_length
       THEN transcript_for_analysis = transcript
       ELSE transcript_for_analysis
              = PyStr(SubSeq(transcript.v, 1, max_transcript_length))
  /\ WholeTranscriptSaved


\* C34 (as claimed): every record whose tags_override is not null has tags
\* equal to its tags_override, whatever calls of create_call_record and
\* update_call_record came before, an override by update_tags followed by
\* the submission's own save of the analysis tags among them.
C34_OverrideIsShown ==
  \A id \in DOMAIN calls :
    calls[id].tags_override.ty # "None" =>
      calls[id].tags = calls[id].tags_override


\* The submission has ended: process_upload_async has returned, the
\* background thread was never started or has ended, and the terminal event
\* was sent.
Terminated ==
  /\ pcMain = "returned"
  /\ pcBg \in {"unstarted", "dead", "done"}
  /\ nTerminal >= 1

\* C35 (as claimed): once the submission has ended, its artifact exists if
\* and only if its record exists, also when delete_call or the removal of
\* the file has failed in the cleanup.
C35_ArtifactIffRecord ==
  Terminated => (file_path \in files <=> call_id \in DOMAIN calls)


\* C36 (as claimed): a submission that has ended has sent one
\* upload_complete message: with success true and the record after a
\* 'complete' event, with success false and the cause after an 'error'
\* event, whether the error came from a validation, from the persistence or
\* from the transcription.
C36_OneUploadComplete ==
  Terminated =>
    /\ Len(upload_complete) = 1
    /\ lastEvent.stage = "complete" =>
         /\ upload_complete[1].success = TRUE
         /\ upload_complete[1].data = call_record
    /\ lastEvent.stage = "error" =>
         /\ upload_complete[1].success = FALSE
         /\ upload_complete[1].data = PyNone


\* C37 (as claimed): delete_one for an id whose record is in the store
\* either answers 200 with the record and its audio file both gone, or
\* answers an error with the record as it was and its audio file still
\* there.
C37_DeleteAllOrNothing ==
  [][ (pcMain = "delete_one" /\ ObjectIdOf(request.call_id) \in DOMAIN calls) =>
        LET id == ObjectIdOf(request.call_id)
            audio_path == calls[id].audio_file_path
        IN \/ /\ response' = 200
              /\ id \notin DOMAIN calls'
              /\ audio_path \notin files'
           \/ /\ response' >= 400
              /\ id \in DOMAIN calls' /\ calls'[id] = calls[id]
              /\ audio_path \in files => audio_path \in files' ]_vars


\* upload_and_process has answered after its call of transcribe raised.
SyncTranscriptionRaised ==
  /\ pcMain = "responded"
  /\ Contains(called, "transcribe")
  /\ ~Contains(called, "analyze_transcript")

\* C38: when transcribe raises in upload_and_process, the answer is 500 with
\* success false and the call_id, the record is in the store as
\* create_call_record made it and the saved file is in place: nothing was
\* deleted, removed or updated.  The saved file is removed only in an
\* answer to a failure of create_call_record.
C38_SyncTranscriptionFailureKeepsAll ==
  /\ SyncTranscriptionRaised =>
       /\ response = 500
       /\ body.v.success = PyBool(FALSE)
       /\ body.v.call_id = PyInt(call_id)
       /\ call_id \in DOMAIN calls
       /\ calls[call_id] = NewCallDoc(original_filename, file_path)
       /\ file_path \in files
       /\ \A step \in {"remove", "delete_call", "update_call_record"} :
            ~Contains(called, step)
  /\ Contains(called, "remove") =>
       /\ called = <<"save", "create_call_record", "remove">>
       /\ response = 500
       /\ Contains(body.v.error.v, "Failed to create call record: ")
       /\ call_id = 0 /\ DOMAIN calls = {}
  /\ (pcMain = "responded" /\ Contains(called, "create_call_record")
        /\ ~Contains(called, "remove")) => file_path \in files

C38_Witness ==
  /\ SyncTranscriptionRaised
  /\ called = <<"save", "create_call_record", "transcribe", "get_call_by_id">>
  /\ response = 500
  /\ call_id = 1
  /\ calls[1].transcript = PyStr(<<>>)
  /\ file_path \in files


\* A call of the service returns.
AuthCall == auth'.turn # auth.turn

\* C39: validate_token(t) returns a user only when authenticate returned t
\* for this user less than token_expiry_hours ago, no logout(t) has returned
\* True and the user has not been made inactive; once logout(t) has
\* returned True, validate_token(t) returns None and logout(t) returns
\* False.
C39_TokenValidOnlyWhileIssued ==
  [][ AuthCall =>
        LET call == auth'.last
        IN /\ (call.op = "validate_token" /\ call.ok) =>
                /\ call.token \in DOMAIN auth.issued
                /\ auth.issued[call.token].user_id = call.user_id
                /\ auth.now < auth.issued[call.token].at + token_expiry_hours
                /\ call.token \notin auth.revoked
                /\ call.user_id \notin auth.barred
           /\ (call.op \in {"validate_token", "logout"}
                /\ call.token \in auth.revoked) => ~call.ok ]_vars

\* logout(1) returned True, validate_token(1) and a second logout(1) have
\* been answered since, the last of them with no success, while token 2 of
\* the same user is still good.
C39_Witness ==
  /\ 1 \in auth.revoked
  /\ auth.last.op \in {"validate_token", "logout"}
  /\ auth.last.token = 1
  /\ ~auth.last.ok
  /\ \E d \in auth.tokens : d.token = 2 /\ d.expires_at > auth.now

====
